---- MODULE Spec2Model ----
(***************************************************************************)
(* Scoring and configuration core of auditapi: the configuration          *)
(* validators and loader (src/src/index.ts), and the auditor's category   *)
(* scores, final score and grade (src/unnamed/part_002).                  *)
(*                                                                         *)
(* Numbers.  Every JavaScript number is kept as an exact fixed-point      *)
(* integer in thousandths (Milli units per 1.0): a weight of 0.25 is      *)
(* Num(250), a score of 92.5 is Num(92500), a threshold of 90 is          *)
(* Num(90000).  Binary floating-point rounding noise is not modelled.     *)
(***************************************************************************)
EXTENDS Integers, Sequences, FiniteSets, TLC

VARIABLES
    scoringFile,       \* parsed content of scoring.yaml
    rulesetFile,       \* parsed content of ruleset.yaml
    validation,        \* outcome of a validator call: the one that made the
                       \* loader throw, or the one whose result is examined
    loaderScoringConfig, \* ConfigLoader._scoringConfig, the cached scoring config
    loaderRulesetConfig, \* ConfigLoader._rulesetConfig, the cached ruleset
    scoringConfig,     \* Auditor.scoringConfig
    rulesetConfig,     \* Auditor.rulesetConfig
    result,            \* what the most recent audit call returned or threw
    call,              \* a call of one of the pure functions and what it returned
    pc                 \* position of the run

vars == <<scoringFile, rulesetFile, validation, loaderScoringConfig,
          loaderRulesetConfig, scoringConfig, rulesetConfig, result, call, pc>>

-----------------------------------------------------------------------------
(* JavaScript values as they come out of the YAML parser *)

Undefined == [t |-> "undefined"]
Null == [t |-> "null"]
NaN == [t |-> "nan"]
\* a number, in thousandths
Num(n) == [t |-> "num", v |-> n]
Str(s) == [t |-> "str", v |-> s]
Bool(b) == [t |-> "bool", v |-> b]
\* an array with the given elements
Arr(s) == [t |-> "arr", v |-> s]
\* an object with the given own properties (a function from keys to values)
Obj(f) == [t |-> "obj", f |-> f]

\* typeof x === 'object' && x !== null
IsObject(x) == x.t \in {"obj", "arr"}

\* the own property names of a value (array indices are never asked for)
Keys(x) == IF x.t = "obj" THEN DOMAIN x.f ELSE {}

\* key in obj
Has(obj, key) == key \in Keys(obj)

\* obj[key], undefined when the key is not an own property
Get(obj, key) == IF Has(obj, key) THEN obj.f[key] ELSE Undefined

\* Boolean(x) for the values above
Truthy(x) ==
    CASE x.t = "undefined" -> FALSE
      [] x.t = "null" -> FALSE
      [] x.t = "nan" -> FALSE
      [] x.t = "num" -> x.v # 0
      [] x.t = "str" -> x.v # ""
      [] x.t = "bool" -> x.v
      [] OTHER -> TRUE

\* 1.0 in fixed-point units; the tolerance 0.001 of validateWeights is one unit
Milli == 1000

\* the whole number n
N(n) == Num(n * Milli)

Abs(n) == IF n < 0 THEN -n ELSE n

\* a grade threshold object {min, max}
Threshold(lo, hi) == Obj([min |-> N(lo), max |-> N(hi)])

-----------------------------------------------------------------------------
(* validateWeights *)

requiredCategories ==
    <<"security", "completeness", "structure", "consistency", "architecture">>

RECURSIVE SumNums(_, _)
SumNums(f, keys) ==
    IF keys = {} THEN 0
    ELSE LET k == CHOOSE x \in keys : TRUE
         IN f[k].v + SumNums(f, keys \ {k})

\* Object.values(weights).reduce((acc, val) => acc + val, 0) on weights that
\* are numbers or strings: adding a string turns the accumulator into a
\* string, and the strings of the documents here are no numerals, so the
\* later subtraction yields NaN
SumValues(weights) ==
    IF \E k \in Keys(weights) : weights.f[k].t # "num"
    THEN NaN
    ELSE IF Keys(weights) = {} THEN Num(0)
         ELSE Num(SumNums(weights.f, Keys(weights)))

\* the errors for the required categories missing from weights, in order
RECURSIVE MissingCategories(_, _)
MissingCategories(weights, i) ==
    IF i > Len(requiredCategories) THEN <<>>
    ELSE (IF Has(weights, requiredCategories[i])
          THEN <<>>
          ELSE << <<"Missing required weight category", requiredCategories[i]>> >>)
         \o MissingCategories(weights, i + 1)

\* Math.abs(sum - 1.0) > 0.001; every comparison with NaN is false
SumOutOfTolerance(sum) == sum.t = "num" /\ Abs(sum.v - Milli) > 1

validateWeights(weights) ==
    LET sum == SumValues(weights)
    IN  (IF SumOutOfTolerance(sum)
         THEN << <<"Category weights must sum to 1.0, got", sum>> >>
         ELSE <<>>)
        \o MissingCategories(weights, 1)

-----------------------------------------------------------------------------
(* validateGradingScale *)

grades == <<"A", "B", "C", "D", "F">>

\* a > b on values; false when either side is undefined (NaN after ToNumber)
Greater(a, b) == a.t = "num" /\ b.t = "num" /\ a.v > b.v

\* property p of a grade entry; a primitive has no own min or max
Prop(entry, p) == IF entry.t = "obj" THEN Get(entry, p) ELSE Undefined

\* const { min, max } = scale[grade] throws a TypeError on null
DestructureThrows(scale) ==
    \E i \in 1..Len(grades) :
        Has(scale, grades[i]) /\ Get(scale, grades[i]).t \in {"null", "undefined"}

\* first loop: presence and min <= max of every grade
RECURSIVE RangeErrors(_, _)
RangeErrors(scale, i) ==
    IF i > Len(grades) THEN <<>>
    ELSE LET g == grades[i]
         IN (IF ~Has(scale, g)
             THEN << <<"Missing grade threshold for", g>> >>
             ELSE IF Greater(Prop(Get(scale, g), "min"), Prop(Get(scale, g), "max"))
                  THEN << <<"Grade has invalid range", g>> >>
                  ELSE <<>>)
            \o RangeErrors(scale, i + 1)

\* grades.map(g => scale[g]).filter(Boolean)
RECURSIVE PresentEntries(_, _)
PresentEntries(scale, i) ==
    IF i > Len(grades) THEN <<>>
    ELSE (IF Truthy(Get(scale, grades[i])) THEN <<Get(scale, grades[i])>> ELSE <<>>)
         \o PresentEntries(scale, i + 1)

\* insert e into the sorted sequence s, after every element whose max is not
\* larger (a stable sort)
RECURSIVE InsertByMax(_, _)
InsertByMax(s, e) ==
    IF s = <<>> THEN <<e>>
    ELSE IF Greater(Prop(Head(s), "max"), Prop(e, "max"))
         THEN <<e>> \o s
         ELSE <<Head(s)>> \o InsertByMax(Tail(s), e)

\* .sort((a, b) => a.max - b.max)
RECURSIVE SortByMax(_)
SortByMax(s) ==
    IF s = <<>> THEN <<>>
    ELSE InsertByMax(SortByMax(SubSeq(s, 1, Len(s) - 1)), s[Len(s)])

\* current.max + 1 !== next.min
NotAdjacent(current, next) ==
    LET cmax == Prop(current, "max")
        nmin == Prop(next, "min")
    IN  ~(cmax.t = "num" /\ nmin.t = "num" /\ cmax.v + Milli = nmin.v)

RECURSIVE GapErrors(_, _)
GapErrors(sorted, i) ==
    IF i > Len(sorted) - 1 THEN <<>>
    ELSE (IF NotAdjacent(sorted[i], sorted[i + 1])
          THEN << <<"Gap/overlap between grades at",
                     Prop(sorted[i], "max"), Prop(sorted[i + 1], "min")>> >>
          ELSE <<>>)
         \o GapErrors(sorted, i + 1)

\* the errors validateGradingScale returns when it does not throw
validateGradingScale(scale) ==
    RangeErrors(scale, 1) \o GapErrors(SortByMax(PresentEntries(scale, 1)), 1)

-----------------------------------------------------------------------------
(* validateScoringConfig *)

Failure(errors) ==
    [outcome |-> "returned", success |-> FALSE, data |-> Undefined,
     errors |-> Arr(errors)]
Success(data) ==
    [outcome |-> "returned", success |-> TRUE, data |-> data, errors |-> Undefined]
Thrown(name) ==
    [outcome |-> "threw", success |-> FALSE, data |-> Undefined, errors |-> Undefined,
     error |-> name]

\* typeof base_score !== 'number' || base_score < 0 || base_score > 100
BadBaseScore(b) == b.t # "num" \/ b.v < 0 \/ b.v > 100 * Milli

ScoringErrors(config) ==
    (IF BadBaseScore(Get(config, "base_score"))
     THEN << <<"base_score must be a number between 0 and 100">> >> ELSE <<>>)
    \o (IF ~IsObject(Get(config, "weights"))
        THEN << <<"weights must be an object">> >>
        ELSE validateWeights(Get(config, "weights")))
    \o (IF ~IsObject(Get(config, "penalties"))
        THEN << <<"penalties must be an object">> >> ELSE <<>>)
    \o (IF ~IsObject(Get(config, "grading_scale"))
        THEN << <<"grading_scale must be an object">> >>
        ELSE validateGradingScale(Get(config, "grading_scale")))

validateScoringConfig(config) ==
    IF ~IsObject(config)
    THEN Failure(<< <<"Configuration must be an object">> >>)
    ELSE IF IsObject(Get(config, "grading_scale"))
            /\ DestructureThrows(Get(config, "grading_scale"))
         THEN Thrown("TypeError")
         ELSE IF Len(ScoringErrors(config)) > 0
              THEN Failure(ScoringErrors(config))
              ELSE Success(config)

-----------------------------------------------------------------------------
(* validateRuleset *)

\* rule identifiers are strings of characters, so that startsWith can be
\* computed on them
SecAuth == <<"s", "e", "c", "-", "a">>
ComDoc == <<"c", "o", "m", "-", "d">>
StrRef == <<"s", "t", "r", "-", "r">>
CnsMix == <<"c", "n", "s", "-", "m">>
OasTag == <<"o", "a", "s", "t">>
Sec == <<"s", "e", "c">>

\* the rule identifiers in the order the files list them
ruleOrder == <<SecAuth, ComDoc, StrRef, CnsMix, OasTag, Sec>>

severities == <<"error", "warn", "info", "hint">>

\* ['error', 'warn', 'info', 'hint'].includes(r.severity)
ValidSeverity(sev) ==
    sev.t = "str" /\ \E i \in 1..Len(severities) : severities[i] = sev.v

\* the errors of one entry of rules
OneRuleErrors(ruleId, rule) ==
    IF ~IsObject(rule)
    THEN << <<"Rule must be an object", ruleId>> >>
    ELSE (IF Get(rule, "description").t # "str"
          THEN << <<"Rule missing required field: description", ruleId>> >>
          ELSE <<>>)
         \o (IF ~ValidSeverity(Get(rule, "severity"))
             THEN << <<"Rule has invalid severity", ruleId>> >>
             ELSE <<>>)

\* for (const [ruleId, rule] of Object.entries(ruleset.rules))
RECURSIVE RuleErrors(_, _)
RuleErrors(rules, i) ==
    IF i > Len(ruleOrder) THEN <<>>
    ELSE (IF Has(rules, ruleOrder[i])
          THEN OneRuleErrors(ruleOrder[i], Get(rules, ruleOrder[i]))
          ELSE <<>>)
         \o RuleErrors(rules, i + 1)

RulesetErrors(config) ==
    (IF Get(config, "extends").t \notin {"undefined", "arr"}
     THEN << <<"extends must be an array of strings if provided">> >> ELSE <<>>)
    \o (IF ~IsObject(Get(config, "rules"))
        THEN << <<"rules must be an object">> >>
        ELSE RuleErrors(Get(config, "rules"), 1))

validateRuleset(config) ==
    IF ~IsObject(config)
    THEN Failure(<< <<"Ruleset must be an object">> >>)
    ELSE IF Len(RulesetErrors(config)) > 0
         THEN Failure(RulesetErrors(config))
         ELSE Success(config)

-----------------------------------------------------------------------------
(* resolveRuleFunctions *)

\* a bound evaluator
Fn(name) == [t |-> "fn", v |-> name]

\* the own keys of SPECTRAL_FUNCTION_MAP and the evaluator each is bound to
SPECTRAL_FUNCTION_MAP ==
    [truthy |-> Fn("truthy"), falsy |-> Fn("falsy"), defined |-> Fn("defined"),
     undefined |-> Fn("undefined"), pattern |-> Fn("pattern"),
     schema |-> Fn("schema"), enumeration |-> Fn("enumeration"),
     length |-> Fn("length"), alphabetical |-> Fn("alphabetical"),
     casing |-> Fn("casing"), xor |-> Fn("xor"),
     unreferencedReusableObject |-> Fn("unreferencedReusableObject"),
     consistentCasing |-> Fn("consistentCasing")]
    @@ ("unreferenced-reusable-object" :> Fn("unreferencedReusableObject"))
    @@ ("consistent-casing" :> Fn("consistentCasing"))

\* property names every object literal inherits from Object.prototype
InheritedNames == {"constructor", "toString", "valueOf", "hasOwnProperty"}

\* SPECTRAL_FUNCTION_MAP[name]
LookupFunction(name) ==
    IF name \in DOMAIN SPECTRAL_FUNCTION_MAP THEN SPECTRAL_FUNCTION_MAP[name]
    ELSE IF name \in InheritedNames THEN Fn(name)
    ELSE Undefined

\* one then clause after the map callback (the clause is returned as it is
\* when its function is no string)
ResolveClause(clause) ==
    IF Get(clause, "function").t = "str"
    THEN Obj([k \in Keys(clause) |->
                IF k = "function" THEN LookupFunction(clause.f[k].v) ELSE clause.f[k]])
    ELSE clause

\* Array.isArray(rule.then) ? rule.then : [rule.then]
ThenArray(then) == IF then.t = "arr" THEN then.v ELSE <<then>>

\* the clause names a function that the map does not resolve
UnknownFunction(clause) ==
    Get(clause, "function").t = "str"
    /\ ~Truthy(LookupFunction(Get(clause, "function").v))

RuleThrows(rule) ==
    Truthy(Get(rule, "then"))
    /\ \E i \in 1..Len(ThenArray(Get(rule, "then"))) :
           UnknownFunction(ThenArray(Get(rule, "then"))[i])

ResolveThen(then) ==
    LET resolved == [i \in 1..Len(ThenArray(then)) |-> ResolveClause(ThenArray(then)[i])]
    IN  IF then.t = "arr" THEN Arr(resolved) ELSE resolved[1]

ResolveRule(rule) ==
    IF Truthy(Get(rule, "then"))
    THEN Obj([k \in Keys(rule) |->
                IF k = "then" THEN ResolveThen(rule.f[k]) ELSE rule.f[k]])
    ELSE rule

\* the first rule, in file order, with an unresolved function name
RECURSIVE FirstUnknown(_, _)
FirstUnknown(rules, i) ==
    IF i > Len(ruleOrder) THEN Undefined
    ELSE IF Has(rules, ruleOrder[i]) /\ RuleThrows(Get(rules, ruleOrder[i]))
         THEN [t |-> "rule", v |-> ruleOrder[i]]
         ELSE FirstUnknown(rules, i + 1)

\* the first function name of the rule's then clauses that does not resolve
FirstUnknownName(rule) ==
    LET then == ThenArray(Get(rule, "then"))
        i == CHOOSE k \in 1..Len(then) :
                /\ UnknownFunction(then[k])
                /\ \A j \in 1..(k - 1) : ~UnknownFunction(then[j])
    IN  Get(then[i], "function").v

\* returns the resolved ruleset, or throws a ConfigLoadError whose message
\* holds the function name and the rule identifier
resolveRuleFunctions(ruleset) ==
    LET rules == Get(ruleset, "rules")
    IN  IF FirstUnknown(rules, 1) # Undefined
        THEN [outcome |-> "threw", error |-> "ConfigLoadError",
              ruleId |-> FirstUnknown(rules, 1).v,
              function |-> FirstUnknownName(Get(rules, FirstUnknown(rules, 1).v))]
        ELSE [outcome |-> "returned",
              value |-> Obj([k \in Keys(ruleset) |->
                  IF k = "rules"
                  THEN Obj([id \in Keys(rules) |-> ResolveRule(rules.f[id])])
                  ELSE ruleset.f[k]])]

-----------------------------------------------------------------------------
(* ConfigLoader *)

\* a configuration file that does not exist
Missing == [t |-> "missing"]

\* what a load call hands back: the value it returned or the error it threw
\* (with the rule identifier and function name the message holds), the cache
\* field as the call leaves it, and whether the file was read
Loaded(value, read) ==
    [outcome |-> "returned", value |-> value, error |-> "", names |-> <<>>,
     cache |-> value, read |-> read]
LoadFailed(error, names, cache) ==
    [outcome |-> "threw", value |-> Undefined, error |-> error, names |-> names,
     cache |-> cache, read |-> TRUE]

\* loadYamlFile: a missing file is a ConfigLoadError
loadYamlFile(file) ==
    IF file = Missing
    THEN [outcome |-> "threw", error |-> "ConfigLoadError"]
    ELSE [outcome |-> "returned", value |-> file]

\* every call reads and validates the file
loadScoringConfigUncached(cache, file) ==
    LET v == validateScoringConfig(file)
    IN  IF file = Missing THEN LoadFailed("ConfigLoadError", <<>>, cache)
        ELSE IF v.outcome = "threw" THEN LoadFailed(v.error, <<>>, cache)
        ELSE IF ~v.success \/ ~Truthy(v.data)
             THEN LoadFailed("ConfigLoadError", <<>>, cache)
             ELSE Loaded(v.data, TRUE)

\* ConfigLoader.loadScoringConfig on a loader whose _scoringConfig is cache
loadScoringConfig(cache, file) ==
    IF Truthy(cache) THEN Loaded(cache, FALSE)
    ELSE IF loadYamlFile(file).outcome = "threw"
         THEN LoadFailed(loadYamlFile(file).error, <<>>, cache)
         ELSE LET v == validateScoringConfig(loadYamlFile(file).value)
              IN  IF v.outcome = "threw" THEN LoadFailed(v.error, <<>>, cache)
                  ELSE IF ~v.success \/ ~Truthy(v.data)
                       THEN LoadFailed("ConfigLoadError", <<>>, cache)
                       ELSE Loaded(v.data, TRUE)

\* the validated ruleset is stored before its functions are resolved
loadRulesetConfigStoredEarly(cache, file) ==
    IF Truthy(cache) THEN Loaded(cache, FALSE)
    ELSE IF loadYamlFile(file).outcome = "threw"
         THEN LoadFailed(loadYamlFile(file).error, <<>>, cache)
         ELSE LET v == validateRuleset(loadYamlFile(file).value)
              IN  IF ~v.success \/ ~Truthy(v.data)
                  THEN LoadFailed("ConfigLoadError", <<>>, cache)
                  ELSE LET r == resolveRuleFunctions(v.data)
                       IN  IF r.outcome = "threw"
                           THEN LoadFailed(r.error, <<r.ruleId, r.function>>, v.data)
                           ELSE Loaded(r.value, TRUE)

\* ConfigLoader.loadRulesetConfig on a loader whose _rulesetConfig is cache
loadRulesetConfig(cache, file) ==
    IF Truthy(cache) THEN Loaded(cache, FALSE)
    ELSE IF loadYamlFile(file).outcome = "threw"
         THEN LoadFailed(loadYamlFile(file).error, <<>>, cache)
         ELSE LET v == validateRuleset(loadYamlFile(file).value)
              IN  IF ~v.success \/ ~Truthy(v.data)
                  THEN LoadFailed("ConfigLoadError", <<>>, cache)
                  ELSE LET r == resolveRuleFunctions(v.data)
                       IN  IF r.outcome = "threw"
                           THEN LoadFailed(r.error, <<r.ruleId, r.function>>, cache)
                           ELSE Loaded(r.value, TRUE)

-----------------------------------------------------------------------------
(* Auditor: category, conversion, category scores, score and grade *)

StartsWith(id, prefix) ==
    Len(id) >= Len(prefix) /\ SubSeq(id, 1, Len(prefix)) = prefix

\* tags.includes(tag)
Includes(tags, tag) ==
    tags.t = "arr" /\ \E i \in 1..Len(tags.v) : tags.v[i] = Str(tag)

\* the identifier prefix is looked at before the tags
getRuleCategoryPrefixFirst(ruleId, tags) ==
    IF StartsWith(ruleId, <<"s", "e", "c", "-">>) THEN "security"
    ELSE IF StartsWith(ruleId, <<"c", "o", "m", "-">>) THEN "completeness"
    ELSE IF StartsWith(ruleId, <<"s", "t", "r", "-">>) THEN "structure"
    ELSE IF StartsWith(ruleId, <<"c", "n", "s", "-">>) THEN "consistency"
    ELSE IF Truthy(tags) /\ Includes(tags, "security") THEN "security"
    ELSE IF Truthy(tags) /\ Includes(tags, "completeness") THEN "completeness"
    ELSE IF Truthy(tags) /\ Includes(tags, "structure") THEN "structure"
    ELSE IF Truthy(tags) /\ Includes(tags, "consistency") THEN "consistency"
    ELSE "completeness"

getRuleCategory(ruleId, tags) ==
    IF Truthy(tags) /\ Includes(tags, "security") THEN "security"
    ELSE IF Truthy(tags) /\ Includes(tags, "completeness") THEN "completeness"
    ELSE IF Truthy(tags) /\ Includes(tags, "structure") THEN "structure"
    ELSE IF Truthy(tags) /\ Includes(tags, "consistency") THEN "consistency"
    ELSE IF StartsWith(ruleId, <<"s", "e", "c", "-">>) THEN "security"
    ELSE IF StartsWith(ruleId, <<"c", "o", "m", "-">>) THEN "completeness"
    ELSE IF StartsWith(ruleId, <<"s", "t", "r", "-">>) THEN "structure"
    ELSE IF StartsWith(ruleId, <<"c", "n", "s", "-">>) THEN "consistency"
    ELSE "completeness"

\* severity 0 is error, 1 warn, 2 info, anything else hint
SeverityName(n) ==
    IF n = 0 THEN "error" ELSE IF n = 1 THEN "warn" ELSE IF n = 2 THEN "info" ELSE "hint"

\* a Violation keeps the rule identifier and the severity of a finding; its
\* message, path, line and column are copied through and play no part in
\* any computation
convertResults(spectralResults) ==
    [i \in 1..Len(spectralResults) |->
        [ruleId |-> spectralResults[i].code,
         severity |-> SeverityName(spectralResults[i].severity)]]

\* a + b on numbers; NaN when either side is not a number
Add(a, b) == IF a.t = "num" /\ b.t = "num" THEN Num(a.v + b.v) ELSE NaN
Sub(a, b) == IF a.t = "num" /\ b.t = "num" THEN Num(a.v - b.v) ELSE NaN
\* a * b; the inputs keep one factor a whole number, so the quotient is exact
Mul(a, b) == IF a.t = "num" /\ b.t = "num" THEN Num((a.v * b.v) \div Milli) ELSE NaN
\* a >= b; false when either side is not a number
GreaterEq(a, b) == a.t = "num" /\ b.t = "num" /\ a.v >= b.v

\* ruleset.rules[ruleId]?.tags
TagsOf(ruleset, ruleId) ==
    LET rule == Get(Get(ruleset, "rules"), ruleId)
    IN  IF rule.t = "obj" THEN Get(rule, "tags") ELSE Undefined

\* a violation is taken into every category its rule is tagged with
CategoryViolationsAnyTag(vs, ruleset, category) ==
    SelectSeq(vs, LAMBDA v :
        \/ Includes(TagsOf(ruleset, v.ruleId), category)
        \/ getRuleCategory(v.ruleId, Undefined) = category)

\* violations.filter(v => getRuleCategory(...) === category)
CategoryViolations(vs, ruleset, category) ==
    SelectSeq(vs, LAMBDA v : getRuleCategory(v.ruleId, TagsOf(ruleset, v.ruleId)) = category)

\* the default penalty of a violation with no configured penalty
DefaultPenalty(severity) ==
    IF severity = "error" THEN N(10) ELSE IF severity = "warn" THEN N(5) ELSE N(2)

\* the rule's points are used only when they are truthy
PenaltyPointsWhenNonZero(v, config) ==
    LET penalty == Get(Get(config, "penalties"), v.ruleId)
    IN  IF Truthy(Prop(penalty, "points"))
        THEN Prop(penalty, "points") ELSE DefaultPenalty(v.severity)

\* what one violation adds to pointsDeducted
PenaltyPoints(v, config) ==
    LET penalty == Get(Get(config, "penalties"), v.ruleId)
    IN  IF Truthy(penalty) THEN Prop(penalty, "points") ELSE DefaultPenalty(v.severity)

RECURSIVE PointsDeducted(_, _)
PointsDeducted(vs, config) ==
    IF vs = <<>> THEN Num(0)
    ELSE Add(PointsDeducted(SubSeq(vs, 1, Len(vs) - 1), config),
             PenaltyPoints(vs[Len(vs)], config))

categories == <<"security", "completeness", "structure", "consistency">>

CategoryScore(vs, config, ruleset, category) ==
    [category |-> category,
     weight |-> Get(Get(config, "weights"), category),
     pointsDeducted |-> PointsDeducted(CategoryViolations(vs, ruleset, category), config),
     violations |-> CategoryViolations(vs, ruleset, category)]

calculateCategoryScores(vs, config, ruleset) ==
    [i \in 1..Len(categories) |-> CategoryScore(vs, config, ruleset, categories[i])]

\* the first grade, from A down, whose range contains the score
calculateGradeByRange(score, scale) ==
    LET in(g) == /\ GreaterEq(score, Prop(Get(scale, g), "min"))
                 /\ GreaterEq(Prop(Get(scale, g), "max"), score)
    IN  IF in("A") THEN "A" ELSE IF in("B") THEN "B" ELSE IF in("C") THEN "C"
        ELSE IF in("D") THEN "D" ELSE "F"

calculateGrade(score, scale) ==
    IF GreaterEq(score, Prop(Get(scale, "A"), "min")) THEN "A"
    ELSE IF GreaterEq(score, Prop(Get(scale, "B"), "min")) THEN "B"
    ELSE IF GreaterEq(score, Prop(Get(scale, "C"), "min")) THEN "C"
    ELSE IF GreaterEq(score, Prop(Get(scale, "D"), "min")) THEN "D"
    ELSE "F"

\* penalty?.fatal === true
IsFatal(v, config) ==
    Prop(Get(Get(config, "penalties"), v.ruleId), "fatal") = Bool(TRUE)

\* every in place of some
HasFatalEvery(vs, config) == \A i \in 1..Len(vs) : IsFatal(vs[i], config)

\* violations.some(v => penalty?.fatal === true)
HasFatal(vs, config) == \E i \in 1..Len(vs) : IsFatal(vs[i], config)

RECURSIVE TotalPenalty(_, _)
TotalPenalty(categoryScores, n) ==
    IF n = 0 THEN Num(0)
    ELSE Add(TotalPenalty(categoryScores, n - 1),
             Mul(categoryScores[n].pointsDeducted, categoryScores[n].weight))

\* Math.max(0, x); NaN stays NaN
Max0(x) == IF x.t = "num" THEN (IF x.v < 0 THEN Num(0) ELSE x) ELSE NaN

\* Math.round(x): the nearest whole number, halves rounded up
Round(x) == IF x.t = "num" THEN Num(((x.v + (Milli \div 2)) \div Milli) * Milli) ELSE NaN

calculateScore(vs, categoryScores, config) ==
    IF HasFatal(vs, config)
    THEN [finalScore |-> Num(0), hasFatalErrors |-> TRUE]
    ELSE [finalScore |->
              Max0(Sub(Get(config, "base_score"),
                       TotalPenalty(categoryScores, Len(categoryScores)))),
          hasFatalErrors |-> FALSE]

\* the fatal flag is left out
PassedByGrade(grade, hasFatalErrors) == grade # "F"

\* passed: grade !== 'F' && !hasFatalErrors
Passed(grade, hasFatalErrors) == grade # "F" /\ ~hasFatalErrors

CountSeverity(vs, severity) == Len(SelectSeq(vs, LAMBDA v : v.severity = severity))

resolutionNote == "Warning: OpenAPI validation failed."

\* the warning is attached whether or not the resolution failed
NotesAlways(hasResolutionErrors) == Arr(<<Str(resolutionNote)>>)

\* result.notes: set only when the resolution failed
Notes(hasResolutionErrors) ==
    IF hasResolutionErrors THEN Arr(<<Str(resolutionNote)>>) ELSE Undefined

\* the AuditResult that audit builds from the findings (filePath, timestamp
\* and duration are left out)
AuditResult(spectralResults, config, ruleset, hasResolutionErrors) ==
    LET vs == convertResults(spectralResults)
        categoryBreakdown == calculateCategoryScores(vs, config, ruleset)
        score == calculateScore(vs, categoryBreakdown, config)
        grade == calculateGrade(score.finalScore, Get(config, "grading_scale"))
    IN  [outcome |-> "returned",
         finalScore |-> Round(score.finalScore),
         grade |-> grade,
         passed |-> Passed(grade, score.hasFatalErrors),
         hasFatalErrors |-> score.hasFatalErrors,
         violations |-> vs,
         categoryBreakdown |-> categoryBreakdown,
         summary |-> [totalViolations |-> Len(vs),
                      errorCount |-> CountSeverity(vs, "error"),
                      warningCount |-> CountSeverity(vs, "warn"),
                      infoCount |-> CountSeverity(vs, "info"),
                      fatalCount |-> Len(SelectSeq(vs, LAMBDA v : IsFatal(v, config)))],
         notes |-> Notes(hasResolutionErrors)]

-----------------------------------------------------------------------------
(* Configuration files: the bounded families of parsed YAML documents *)

gradeSet == {grades[i] : i \in 1..Len(grades)}

IndexOf(seq, x) == CHOOSE i \in 1..Len(seq) : seq[i] = x

\* the scale whose ranges start at cuts[1..5] and end at top, the letter
\* order[i] owning the i-th lowest range
ContiguousScale(order, cuts, top) ==
    Obj([g \in gradeSet |->
        LET i == IndexOf(order, g)
        IN  Threshold(cuts[i], IF i < Len(order) THEN cuts[i + 1] - 1 ELSE top)])

\* the README's scale: F 0-59, D 60-69, C 70-79, B 80-89, A 90-100
DefaultCuts == [cuts |-> <<0, 60, 70, 80, 90>>, top |-> 100]
\* the same with A starting at 93
HighACuts == [cuts |-> <<0, 60, 70, 80, 93>>, top |-> 100]
\* a contiguous scale that covers 10..95 only
PartialCuts == [cuts |-> <<10, 60, 70, 80, 90>>, top |-> 95]

Ascending == <<"F", "D", "C", "B", "A">>
Descending == <<"A", "B", "C", "D", "F">>
Shuffled == <<"D", "F", "C", "A", "B">>

BaseScales ==
    {ContiguousScale(o, c.cuts, c.top) :
        o \in {Ascending, Descending, Shuffled},
        c \in {DefaultCuts, HighACuts, PartialCuts}}

DefectKinds ==
    {"absent", "null", "falsy", "minUp", "minDown", "maxUp", "maxDown", "swap"}

\* one grade entry with a defect of the given kind
Defect(entry, kind) ==
    LET lo == entry.f.min.v
        hi == entry.f.max.v
    IN  CASE kind = "null" -> Null
          [] kind = "falsy" -> Num(0)
          [] kind = "minUp" -> Obj([min |-> Num(lo + Milli), max |-> Num(hi)])
          [] kind = "minDown" -> Obj([min |-> Num(lo - Milli), max |-> Num(hi)])
          [] kind = "maxUp" -> Obj([min |-> Num(lo), max |-> Num(hi + Milli)])
          [] kind = "maxDown" -> Obj([min |-> Num(lo), max |-> Num(hi - Milli)])
          [] kind = "swap" -> Obj([min |-> Num(hi), max |-> Num(lo)])
          [] OTHER -> entry

\* the scale with the entries of the grades in gs given the defect
WithDefect(scale, gs, kind) ==
    IF kind = "absent"
    THEN Obj([g \in Keys(scale) \ gs |-> scale.f[g]])
    ELSE Obj([g \in Keys(scale) |->
                IF g \in gs THEN Defect(scale.f[g], kind) ELSE scale.f[g]])

RawScales ==
    BaseScales
    \cup {WithDefect(b, gs, k) :
            b \in BaseScales, gs \in (SUBSET gradeSet) \ {{}}, k \in DefectKinds}

Weights(sec, com, str, cns, arc) ==
    [security |-> Num(sec), completeness |-> Num(com), structure |-> Num(str),
     consistency |-> Num(cns), architecture |-> Num(arc)]

\* the README's weights, architecture unweighted
DefaultWeights == Weights(350, 250, 250, 150, 0)
ArchWeights == Weights(300, 250, 250, 100, 100)

categorySet == {requiredCategories[i] : i \in 1..Len(requiredCategories)}

\* weights changed at one category: dropped, replaced by a string, or moved
\* by a few thousandths
ChangedWeights(w, c, change) ==
    CASE change = "absent" -> [k \in (DOMAIN w) \ {c} |-> w[k]]
      [] change = "string" -> [w EXCEPT ![c] = Str("high")]
      [] change = "down2" -> [w EXCEPT ![c] = Num(w[c].v - 2)]
      [] change = "down1" -> [w EXCEPT ![c] = Num(w[c].v - 1)]
      [] change = "up1" -> [w EXCEPT ![c] = Num(w[c].v + 1)]
      [] change = "up2" -> [w EXCEPT ![c] = Num(w[c].v + 2)]

WeightChanges == {"absent", "string", "down2", "down1", "up1", "up2"}

\* a key that is no category
ExtraValues == {Num(0), Num(1), Num(100), Str("n/a")}

WithExtra(w, x) == [k \in (DOMAIN w) \cup {"performance"} |->
                      IF k = "performance" THEN x ELSE w[k]]

\* five weights that sum to 0.9
LowWeights == Weights(250, 250, 250, 150, 0)

\* five weights that sum to 1.0, one of them below zero
NegativeWeights == Weights(600, 250, 250, 150, -250)

CoreWeights ==
    {DefaultWeights, ArchWeights, LowWeights, NegativeWeights}
    \cup {ChangedWeights(w, c, ch) :
            w \in {DefaultWeights, ArchWeights}, c \in categorySet, ch \in WeightChanges}

RawWeights ==
    {Obj(w) : w \in CoreWeights}
    \cup {Obj(WithExtra(w, x)) : w \in CoreWeights, x \in ExtraValues}

Penalty(points, fatal) == Obj([points |-> N(points), fatal |-> Bool(fatal)])

NoPenalties == Obj(<<>>)
\* a fatal security rule and an explicit completeness penalty
FatalPenalties == Obj((SecAuth :> Penalty(50, TRUE)) @@ (ComDoc :> Penalty(30, FALSE)))
\* a penalty of no points, and a fatal rule of another category
ZeroPenalties ==
    Obj((CnsMix :> Penalty(0, FALSE)) @@ (StrRef :> Penalty(15, TRUE))
        @@ (ComDoc :> Penalty(30, FALSE)))

\* a penalty that adds points instead of deducting them
NegativePenalties == Obj(ComDoc :> Penalty(-30, FALSE))

\* penalties whose entries are not {points: number >= 0, fatal: boolean}
RawPenalties ==
    {NegativePenalties,
     Obj(ComDoc :> Obj([points |-> N(30), fatal |-> Str("yes")])),
     Obj(ComDoc :> Obj([points |-> Str("30"), fatal |-> Bool(FALSE)])),
     Obj(ComDoc :> Obj([points |-> N(30)])),
     Obj(ComDoc :> Null),
     Obj(ComDoc :> N(30))}

ScoringConfig(base, weights, penalties, scale) ==
    Obj([base_score |-> base, weights |-> weights, penalties |-> penalties,
         grading_scale |-> scale])

DefaultScale == ContiguousScale(Ascending, DefaultCuts.cuts, DefaultCuts.top)

DefaultScoring ==
    ScoringConfig(N(100), Obj(DefaultWeights), FatalPenalties, DefaultScale)

\* the documents the validator is run on: one part of the default varied
RawScoringConfigs ==
    {Null, Str("scoring"), Arr(<<>>)}
    \cup {ScoringConfig(N(100), Obj(DefaultWeights), FatalPenalties, s) : s \in RawScales}
    \cup {ScoringConfig(N(100), w, FatalPenalties, DefaultScale) : w \in RawWeights}
    \cup {ScoringConfig(N(100), Obj(DefaultWeights), p, DefaultScale) : p \in RawPenalties}
    \cup {ScoringConfig(b, w, p, s) :
            b \in {Undefined, Str("100"), Num(-1), Num(100 * Milli + 1), N(0)},
            w \in {Null, Obj(DefaultWeights)},
            p \in {Undefined, Null, NoPenalties},
            s \in {Null, Arr(<<>>), DefaultScale}}

Rule(description, severity, tags, then) ==
    Obj([description |-> description, severity |-> severity, tags |-> tags,
         then |-> then])

Clause(name) == Obj([function |-> Str(name), field |-> Str("description")])

\* the custom rules: a tag that agrees with the prefix, no tags, a tag that
\* contradicts the prefix, and two tags listed against the order of priority
DefaultRules ==
    (SecAuth :> Rule(Str("security schemes"), Str("error"),
                     Arr(<<Str("security")>>), Clause("truthy")))
    @@ (ComDoc :> Rule(Str("descriptions"), Str("warn"), Undefined, Clause("defined")))
    @@ (StrRef :> Rule(Str("references"), Str("info"),
                       Arr(<<Str("owasp"), Str("consistency")>>),
                       Arr(<<Clause("schema"), Clause("unreferenced-reusable-object")>>)))
    @@ (CnsMix :> Rule(Str("mixed casing"), Str("hint"),
                       Arr(<<Str("consistency"), Str("structure")>>),
                       Clause("consistent-casing")))

Ruleset(extends, rules) == Obj([extends |-> extends, rules |-> rules])

DefaultRuleset == Ruleset(Arr(<<Str("spectral:oas")>>), Obj(DefaultRules))

RuleDefects == {"null", "noDescription", "emptyDescription", "badSeverity", "noSeverity"}

DefectRule(rule, kind) ==
    CASE kind = "null" -> Null
      [] kind = "noDescription" -> Obj([k \in Keys(rule) \ {"description"} |-> rule.f[k]])
      [] kind = "emptyDescription" -> Obj([rule.f EXCEPT !["description"] = Str("")])
      [] kind = "badSeverity" -> Obj([rule.f EXCEPT !["severity"] = Str("fatal")])
      [] kind = "noSeverity" -> Obj([k \in Keys(rule) \ {"severity"} |-> rule.f[k]])
      [] OTHER -> rule

RawRules ==
    {DefaultRules}
    \cup {[id \in DOMAIN DefaultRules |->
            IF id \in ids THEN DefectRule(DefaultRules[id], k) ELSE DefaultRules[id]] :
            ids \in (SUBSET DOMAIN DefaultRules) \ {{}}, k \in RuleDefects}

RawRulesets ==
    {Null, Str("ruleset")}
    \cup {Ruleset(e, Obj(r)) :
            e \in {Undefined, Arr(<<Str("spectral:oas")>>), Str("spectral:oas")},
            r \in RawRules}
    \cup {Ruleset(Undefined, r) : r \in {Undefined, Null, Arr(<<>>), Obj(<<>>)}}

-----------------------------------------------------------------------------
(* The run: the Auditor is constructed from the two files, then audits *)

\* the longest list of findings one audit is given
MaxViolations == 2

Codes == {SecAuth, ComDoc, StrRef, CnsMix}

Findings == [code : Codes, severity : 0..3]

RECURSIVE SeqsUpTo(_, _)
SeqsUpTo(S, n) ==
    IF n = 0 THEN {<<>>}
    ELSE SeqsUpTo(S, n - 1)
         \cup {Append(q, x) : q \in {r \in SeqsUpTo(S, n - 1) : Len(r) = n - 1}, x \in S}

SpectralResults == SeqsUpTo(Findings, MaxViolations)

\* a scale the validator accepts although four grades have no range
FalsyScale ==
    Obj([g \in gradeSet |-> IF g = "A" THEN Threshold(0, 100) ELSE Num(0)])

\* the scoring.yaml documents of the run: accepted ones that differ in base
\* score, weights, penalties and scale, an accepted one whose penalty has
\* points below zero, one whose base score lies in the range of grade D,
\* and three the loader turns down
ScoringFiles ==
    {ScoringConfig(bw.base, Obj(bw.weights), p, s) :
        bw \in {[base |-> N(100), weights |-> DefaultWeights],
                [base |-> N(100), weights |-> ArchWeights],
                [base |-> N(5), weights |-> DefaultWeights]},
        p \in {FatalPenalties, ZeroPenalties},
        s \in {DefaultScale,
               ContiguousScale(Ascending, HighACuts.cuts, HighACuts.top),
               ContiguousScale(Descending, DefaultCuts.cuts, DefaultCuts.top)}}
    \cup {ScoringConfig(N(100), Obj(DefaultWeights), NegativePenalties, DefaultScale),
          ScoringConfig(N(65), Obj(DefaultWeights), NoPenalties, DefaultScale)}
    \cup {Null,
          ScoringConfig(N(100), Obj(DefaultWeights), NoPenalties,
                        WithDefect(DefaultScale, {"C"}, "null")),
          ScoringConfig(N(100), Obj(DefaultWeights), NoPenalties,
                        WithDefect(DefaultScale, {"B"}, "minUp"))}

RulesetFiles ==
    {DefaultRuleset,
     Ruleset(Undefined, Obj([DefaultRules EXCEPT ![ComDoc] = DefectRule(@, "badSeverity")])),
     Ruleset(Undefined, Obj([DefaultRules EXCEPT ![StrRef] =
         Rule(Str("references"), Str("info"), Undefined,
              Arr(<<Clause("schema"), Clause("noSuchFunction")>>))]))}

Init ==
    /\ scoringFile \in ScoringFiles
    /\ rulesetFile \in RulesetFiles
    /\ validation = Undefined
    /\ loaderScoringConfig = Undefined
    /\ loaderRulesetConfig = Undefined
    /\ scoringConfig = Undefined
    /\ rulesetConfig = Undefined
    /\ result = Undefined
    /\ call = Undefined
    /\ pc = "new"

\* new Auditor(configLoader): loadAll loads scoring.yaml, then ruleset.yaml,
\* each through the loader's cache; any failure leaves the constructor by an
\* exception, with what was loaded before it kept in the loader
loadAll(scoringCache, rulesetCache, sFile, rFile) ==
    LET s == loadScoringConfig(scoringCache, sFile)
        r == loadRulesetConfig(rulesetCache, rFile)
    IN  IF s.outcome = "threw"
        THEN [outcome |-> "threw", error |-> s.error, names |-> s.names,
              scoring |-> Undefined, ruleset |-> Undefined,
              scoringCache |-> s.cache, rulesetCache |-> rulesetCache]
        ELSE IF r.outcome = "threw"
        THEN [outcome |-> "threw", error |-> r.error, names |-> r.names,
              scoring |-> Undefined, ruleset |-> Undefined,
              scoringCache |-> s.cache, rulesetCache |-> r.cache]
        ELSE [outcome |-> "returned", error |-> "", names |-> <<>>,
              scoring |-> s.value, ruleset |-> r.value,
              scoringCache |-> s.cache, rulesetCache |-> r.cache]

NewAuditor ==
    /\ pc = "new"
    /\ LET configs == loadAll(loaderScoringConfig, loaderRulesetConfig,
                              scoringFile, rulesetFile)
           s == validateScoringConfig(scoringFile)
           r == validateRuleset(rulesetFile)
       IN  /\ loaderScoringConfig' = configs.scoringCache
           /\ loaderRulesetConfig' = configs.rulesetCache
           /\ IF configs.outcome = "threw"
              THEN /\ validation' =
                        (IF s.outcome = "threw" \/ ~s.success THEN s
                         ELSE IF ~r.success THEN r
                         ELSE resolveRuleFunctions(r.data))
                   /\ pc' = "configError"
                   /\ UNCHANGED <<scoringConfig, rulesetConfig>>
              ELSE /\ validation' = validation
                   /\ scoringConfig' = configs.scoring
                   /\ rulesetConfig' = configs.ruleset
                   /\ pc' = "ready"
    /\ UNCHANGED <<scoringFile, rulesetFile, result, call>>

\* audit(filePath) of a file that does not exist: the call throws before
\* anything is resolved or evaluated
AuditMissingFile ==
    /\ pc \in {"ready", "done"}
    /\ result' = [outcome |-> "threw", error |-> "Audit failed", cause |-> "File not found"]
    /\ pc' = "done"
    /\ UNCHANGED <<scoringFile, rulesetFile, validation, scoringConfig, rulesetConfig, call,
                 loaderScoringConfig, loaderRulesetConfig>>

\* audit(filePath) up to the end of the document's resolution, whose failure
\* is only remembered
AuditResolve ==
    /\ pc \in {"ready", "done"}
    /\ result' = Undefined
    /\ \E resolved \in BOOLEAN :
        pc' = IF resolved THEN "linting" ELSE "lintingUnresolved"
    /\ UNCHANGED <<scoringFile, rulesetFile, validation, scoringConfig, rulesetConfig, call,
                 loaderScoringConfig, loaderRulesetConfig>>

\* the rule evaluation returns its findings and audit builds the result
AuditScore ==
    /\ pc \in {"linting", "lintingUnresolved"}
    /\ \E spectralResults \in SpectralResults :
        result' = AuditResult(spectralResults, scoringConfig, rulesetConfig,
                              pc = "lintingUnresolved")
    /\ pc' = "done"
    /\ UNCHANGED <<scoringFile, rulesetFile, validation, scoringConfig, rulesetConfig, call,
                 loaderScoringConfig, loaderRulesetConfig>>

\* the rule evaluation throws and audit wraps the error
AuditEvaluationThrows ==
    /\ pc \in {"linting", "lintingUnresolved"}
    /\ result' = [outcome |-> "threw", error |-> "Audit failed", cause |-> "evaluation"]
    /\ pc' = "done"
    /\ UNCHANGED <<scoringFile, rulesetFile, validation, scoringConfig, rulesetConfig, call,
                 loaderScoringConfig, loaderRulesetConfig>>

Next ==
    \/ NewAuditor
    \/ AuditMissingFile
    \/ AuditResolve
    \/ AuditScore
    \/ AuditEvaluationThrows

Spec == Init /\ [][Next]_vars

-----------------------------------------------------------------------------
(* The validators applied to the wide families of documents *)

InitValidate ==
    /\ \/ scoringFile \in RawScoringConfigs /\ rulesetFile = DefaultRuleset
       \/ scoringFile = DefaultScoring /\ rulesetFile \in RawRulesets
    /\ validation = Undefined
    /\ loaderScoringConfig = Undefined
    /\ loaderRulesetConfig = Undefined
    /\ scoringConfig = Undefined
    /\ rulesetConfig = Undefined
    /\ result = Undefined
    /\ call = Undefined
    /\ pc = "new"

CallValidateScoringConfig ==
    /\ pc = "new"
    /\ validation' = validateScoringConfig(scoringFile)
    /\ pc' = "validatedScoring"
    /\ UNCHANGED <<scoringFile, rulesetFile, scoringConfig, rulesetConfig, result, call,
                 loaderScoringConfig, loaderRulesetConfig>>

CallValidateRuleset ==
    /\ pc = "new"
    /\ validation' = validateRuleset(rulesetFile)
    /\ pc' = "validatedRuleset"
    /\ UNCHANGED <<scoringFile, rulesetFile, scoringConfig, rulesetConfig, result, call,
                 loaderScoringConfig, loaderRulesetConfig>>

NextValidate == CallValidateScoringConfig \/ CallValidateRuleset

SpecValidate == InitValidate /\ [][NextValidate]_vars

-----------------------------------------------------------------------------
(* calculateGrade applied to pairs of scores *)

\* scores around the thresholds of the scales, halves included
GradeScores ==
    {Num(n) : n \in {0, 9500, 10000, 59000, 59500, 60000, 89500, 90000,
                     92500, 93000, 95000, 95500, 100000}}

\* every grade has an entry whose min the function can read
Readable(scale) ==
    \A g \in gradeSet : Has(scale, g) /\ Get(scale, g).t \notin {"null", "undefined"}

GradedScales ==
    {s \in BaseScales
           \cup {WithDefect(b, {g}, k) : b \in BaseScales, g \in gradeSet, k \in DefectKinds}
           \cup {FalsyScale} :
        Readable(s)}

InitGrade ==
    /\ scoringFile \in
         {ScoringConfig(N(100), Obj(DefaultWeights), FatalPenalties, s) : s \in GradedScales}
    /\ rulesetFile = DefaultRuleset
    /\ validation = Undefined
    /\ loaderScoringConfig = Undefined
    /\ loaderRulesetConfig = Undefined
    /\ scoringConfig = Undefined
    /\ rulesetConfig = Undefined
    /\ result = Undefined
    /\ call = Undefined
    /\ pc = "new"

CallCalculateGrade ==
    /\ pc = "new"
    /\ \E s1 \in GradeScores, s2 \in GradeScores :
        call' = [fn |-> "calculateGrade", s1 |-> s1, s2 |-> s2,
                 g1 |-> calculateGrade(s1, Get(scoringFile, "grading_scale")),
                 g2 |-> calculateGrade(s2, Get(scoringFile, "grading_scale"))]
    /\ pc' = "called"
    /\ UNCHANGED <<scoringFile, rulesetFile, validation, scoringConfig, rulesetConfig, result,
                 loaderScoringConfig, loaderRulesetConfig>>

SpecGrade == InitGrade /\ [][CallCalculateGrade]_vars

-----------------------------------------------------------------------------
(* One ConfigLoader: load calls, clearCache, and the files changing on disk *)

\* a rule whose then clauses name the given functions
RuleWith(then) == Rule(Str("references"), Str("info"), Undefined, then)

\* a clause whose function is no string
NumberClause == Obj([function |-> N(1), field |-> Str("description")])

LoaderScoringFiles ==
    {DefaultScoring,
     ScoringConfig(N(100), Obj(ArchWeights), NoPenalties, DefaultScale),
     ScoringConfig(N(100), Obj(DefaultWeights), NoPenalties,
                   WithDefect(DefaultScale, {"C"}, "null")),
     Null,
     Missing}

\* the default ruleset; rulesets with one rule changed to name a function
\* that is not registered, a property every object inherits, or a number;
\* a ruleset the validator turns down; and no file
LoaderRulesetFiles ==
    {DefaultRuleset,
     Ruleset(Undefined, Obj([DefaultRules EXCEPT ![StrRef] =
         RuleWith(Arr(<<Clause("schema"), Clause("noSuchFunction")>>))])),
     Ruleset(Undefined, Obj([DefaultRules EXCEPT ![ComDoc] =
         RuleWith(Clause("constructor"))])),
     Ruleset(Undefined, Obj([DefaultRules EXCEPT ![ComDoc] =
         RuleWith(Arr(<<NumberClause, Clause("casing")>>))])),
     Ruleset(Undefined, Obj([DefaultRules EXCEPT ![ComDoc] = DefectRule(@, "badSeverity")])),
     Missing}

InitLoader ==
    /\ scoringFile \in LoaderScoringFiles
    /\ rulesetFile \in LoaderRulesetFiles
    /\ validation = Undefined
    /\ loaderScoringConfig = Undefined
    /\ loaderRulesetConfig = Undefined
    /\ scoringConfig = Undefined
    /\ rulesetConfig = Undefined
    /\ result = Undefined
    /\ call = Undefined
    /\ pc = "loader"

\* the record of a call on the loader: what it returned or threw, which
\* files it read, and the files as they were when it ran
LoaderCall(fn, outcome, error, names, scoring, ruleset, readScoring, readRuleset) ==
    [fn |-> fn, outcome |-> outcome, error |-> error, names |-> names,
     scoring |-> scoring, ruleset |-> ruleset,
     readScoring |-> readScoring, readRuleset |-> readRuleset,
     scoringFile |-> scoringFile, rulesetFile |-> rulesetFile]

LoadScoringConfig ==
    /\ pc = "loader"
    /\ LET s == loadScoringConfig(loaderScoringConfig, scoringFile)
       IN  /\ loaderScoringConfig' = s.cache
           /\ call' = LoaderCall("loadScoringConfig", s.outcome, s.error, s.names,
                                 s.value, Undefined, s.read, FALSE)
    /\ UNCHANGED <<scoringFile, rulesetFile, validation, loaderRulesetConfig,
                   scoringConfig, rulesetConfig, result, pc>>

LoadRulesetConfig ==
    /\ pc = "loader"
    /\ LET r == loadRulesetConfig(loaderRulesetConfig, rulesetFile)
       IN  /\ loaderRulesetConfig' = r.cache
           /\ call' = LoaderCall("loadRulesetConfig", r.outcome, r.error, r.names,
                                 Undefined, r.value, FALSE, r.read)
    /\ UNCHANGED <<scoringFile, rulesetFile, validation, loaderScoringConfig,
                   scoringConfig, rulesetConfig, result, pc>>

LoadAll ==
    /\ pc = "loader"
    /\ LET configs == loadAll(loaderScoringConfig, loaderRulesetConfig,
                              scoringFile, rulesetFile)
           s == loadScoringConfig(loaderScoringConfig, scoringFile)
           r == loadRulesetConfig(loaderRulesetConfig, rulesetFile)
       IN  /\ loaderScoringConfig' = configs.scoringCache
           /\ loaderRulesetConfig' = configs.rulesetCache
           /\ call' = LoaderCall("loadAll", configs.outcome, configs.error,
                                 configs.names, configs.scoring, configs.ruleset,
                                 s.read, s.outcome = "returned" /\ r.read)
    /\ UNCHANGED <<scoringFile, rulesetFile, validation, scoringConfig,
                   rulesetConfig, result, pc>>

\* clearCache(): both cached configurations are dropped
ClearCache ==
    /\ pc = "loader"
    /\ loaderScoringConfig' = Undefined
    /\ loaderRulesetConfig' = Undefined
    /\ call' = LoaderCall("clearCache", "returned", "", <<>>, Undefined, Undefined,
                          FALSE, FALSE)
    /\ UNCHANGED <<scoringFile, rulesetFile, validation, scoringConfig,
                   rulesetConfig, result, pc>>

\* somebody edits, replaces or removes the configuration files
ChangeFiles ==
    /\ pc = "loader"
    /\ scoringFile' \in LoaderScoringFiles
    /\ rulesetFile' \in LoaderRulesetFiles
    /\ <<scoringFile', rulesetFile'>> # <<scoringFile, rulesetFile>>
    /\ UNCHANGED <<validation, loaderScoringConfig, loaderRulesetConfig,
                   scoringConfig, rulesetConfig, result, call, pc>>

NextLoader ==
    \/ LoadScoringConfig
    \/ LoadRulesetConfig
    \/ LoadAll
    \/ ClearCache
    \/ ChangeFiles

SpecLoader == InitLoader /\ [][NextLoader]_vars

-----------------------------------------------------------------------------
(* getRuleCategory applied to rule identifiers and tag lists *)

\* the longest tag list
MaxTags == 2

\* a rule identifier with a prefix that is no category prefix
ArcRef == <<"a", "r", "c", "-", "r">>

CategoryRuleIds == {SecAuth, ComDoc, StrRef, CnsMix, OasTag, Sec, ArcRef}

TagNames ==
    {"security", "completeness", "structure", "consistency", "architecture", "owasp"}

\* tags as the ruleset gives them: absent, null, or a list of strings
TagLists ==
    {Undefined, Null}
    \cup {Arr(q) : q \in SeqsUpTo({Str(t) : t \in TagNames}, MaxTags)}

InitCategory ==
    /\ scoringFile = DefaultScoring
    /\ rulesetFile = DefaultRuleset
    /\ validation = Undefined
    /\ loaderScoringConfig = Undefined
    /\ loaderRulesetConfig = Undefined
    /\ scoringConfig = Undefined
    /\ rulesetConfig = Undefined
    /\ result = Undefined
    /\ call \in [fn : {"getRuleCategory"}, ruleId : CategoryRuleIds, tags : TagLists,
                  returned : {""}]
    /\ pc = "new"

CallGetRuleCategory ==
    /\ pc = "new"
    /\ call' = [call EXCEPT !.returned = getRuleCategory(call.ruleId, call.tags)]
    /\ pc' = "called"
    /\ UNCHANGED <<scoringFile, rulesetFile, validation, loaderScoringConfig,
                   loaderRulesetConfig, scoringConfig, rulesetConfig, result>>

SpecCategory == InitCategory /\ [][CallGetRuleCategory]_vars

-----------------------------------------------------------------------------
(* Casing consistency detector: keys are strings of characters *)

Lower ==
    {"a", "b", "c", "d", "e", "f", "g", "h", "i", "j", "k", "l", "m",
     "n", "o", "p", "q", "r", "s", "t", "u", "v", "w", "x", "y", "z"}
Upper ==
    {"A", "B", "C", "D", "E", "F", "G", "H", "I", "J", "K", "L", "M",
     "N", "O", "P", "Q", "R", "S", "T", "U", "V", "W", "X", "Y", "Z"}
Digits == <<"0", "1", "2", "3", "4", "5", "6", "7", "8", "9">>
DigitSet == {Digits[i] : i \in 1..Len(Digits)}

\* CAMEL_CASE_PATTERN = /^[a-z][a-zA-Z0-9]*$/
CAMEL_CASE_PATTERN(key) ==
    /\ Len(key) >= 1
    /\ key[1] \in Lower
    /\ \A i \in 2..Len(key) : key[i] \in Lower \cup Upper \cup DigitSet

\* SNAKE_CASE_PATTERN = /^[a-z][a-z0-9]*(_[a-z][a-z0-9]*)*$/
SNAKE_CASE_PATTERN(key) ==
    /\ Len(key) >= 1
    /\ key[1] \in Lower
    /\ \A i \in 2..Len(key) : key[i] \in Lower \cup DigitSet \cup {"_"}
    /\ \A i \in 1..Len(key) :
          key[i] = "_" => (i < Len(key) /\ key[i + 1] \in Lower)

\* key.includes('_')
HasUnderscore(key) == \E i \in 1..Len(key) : key[i] = "_"

isCamelCase(key) == CAMEL_CASE_PATTERN(key) /\ ~HasUnderscore(key)

isSnakeCase(key) == SNAKE_CASE_PATTERN(key) /\ HasUnderscore(key)

KeyType == <<"t", "y", "p", "e">>
KeyFormat == <<"f", "o", "r", "m", "a", "t">>
KeyProperties == <<"p", "r", "o", "p", "e", "r", "t", "i", "e", "s">>
KeyItems == <<"i", "t", "e", "m", "s">>
KeyRequired == <<"r", "e", "q", "u", "i", "r", "e", "d">>
KeyDescription == <<"d", "e", "s", "c", "r", "i", "p", "t", "i", "o", "n">>
KeyExample == <<"e", "x", "a", "m", "p", "l", "e">>
KeyExamples == <<"e", "x", "a", "m", "p", "l", "e", "s">>

IGNORED_KEYS ==
    {KeyType, KeyFormat, KeyProperties, KeyItems, KeyRequired, KeyDescription,
     KeyExample, KeyExamples}

\* Object.keys(obj): the own property names, the indices for an array
ObjectKeys(obj) ==
    IF obj.t = "obj" THEN DOMAIN obj.f
    ELSE IF obj.t = "arr" THEN {<<Digits[i]>> : i \in 1..Len(obj.v)}
    ELSE {}

\* obj[key]
ValueAt(obj, key) ==
    IF obj.t = "obj" THEN obj.f[key]
    ELSE obj.v[CHOOSE i \in 1..Len(obj.v) : <<Digits[i]>> = key]

NoStats == [camelCase |-> 0, snakeCase |-> 0, total |-> 0]

AddStats(a, b) ==
    [camelCase |-> a.camelCase + b.camelCase,
     snakeCase |-> a.snakeCase + b.snakeCase,
     total |-> a.total + b.total]

\* what one key adds to the counters by itself
KeyStats(key) ==
    [camelCase |-> IF isCamelCase(key) THEN 1 ELSE 0,
     snakeCase |-> IF ~isCamelCase(key) /\ isSnakeCase(key) THEN 1 ELSE 0,
     total |-> 1]

\* countCasingStyles(obj): the counters the traversal of obj adds up
RECURSIVE countCasingStyles(_)
RECURSIVE CountKeys(_, _)
\* the value of every ignored key is traversed, not only properties and items
CountKeysBelowIgnored(obj, keys) ==
    IF keys = {} THEN NoStats
    ELSE LET key == CHOOSE k \in keys : TRUE
             value == ValueAt(obj, key)
             here ==
                 IF key \in IGNORED_KEYS
                 THEN countCasingStyles(value)
                 ELSE AddStats(KeyStats(key), countCasingStyles(value))
         IN  AddStats(here, CountKeys(obj, keys \ {key}))

CountKeys(obj, keys) ==
    IF keys = {} THEN NoStats
    ELSE LET key == CHOOSE k \in keys : TRUE
             value == ValueAt(obj, key)
             here ==
                 IF key \in IGNORED_KEYS
                 THEN IF key \in {KeyProperties, KeyItems}
                         /\ value.t \in {"obj", "arr", "null"}
                      THEN countCasingStyles(value)
                      ELSE NoStats
                 ELSE AddStats(KeyStats(key),
                               IF value.t \in {"obj", "arr"}
                               THEN countCasingStyles(value) ELSE NoStats)
         IN  AddStats(here, CountKeys(obj, keys \ {key}))

countCasingStyles(obj) ==
    IF obj.t \notin {"obj", "arr"} THEN NoStats
    ELSE CountKeys(obj, ObjectKeys(obj))

\* (ratio * 100).toFixed(1), in tenths of a percent
PercentTenths(minority, sum) == (2000 * minority + sum) \div (2 * sum)

\* the check reports at a ratio of 20% already
consistentCasingAtLeast(targetVal) ==
    LET stats == countCasingStyles(targetVal)
        majority == IF stats.camelCase > stats.snakeCase
                    THEN stats.camelCase ELSE stats.snakeCase
        minority == IF stats.camelCase > stats.snakeCase
                    THEN stats.snakeCase ELSE stats.camelCase
    IN  IF stats.total <= 5 \/ minority = 0 THEN <<>>
        ELSE IF 100 * minority >= 20 * (majority + minority)
             THEN <<[camelCase |-> stats.camelCase, snakeCase |-> stats.snakeCase]>>
             ELSE <<>>

\* consistentCasing(targetVal, options, context): the list of findings; the
\* ratio minority / (majority + minority) > 0.20 is compared exactly
consistentCasing(targetVal) ==
    LET stats == countCasingStyles(targetVal)
        majority == IF stats.camelCase > stats.snakeCase
                    THEN stats.camelCase ELSE stats.snakeCase
        minority == IF stats.camelCase > stats.snakeCase
                    THEN stats.snakeCase ELSE stats.camelCase
    IN  IF stats.total <= 5 THEN <<>>
        ELSE IF minority = 0 THEN <<>>
        ELSE IF 100 * minority > 20 * (majority + minority)
             THEN <<[camelCase |-> stats.camelCase,
                     snakeCase |-> stats.snakeCase,
                     majorityStyle |-> IF stats.camelCase > stats.snakeCase
                                       THEN "camelCase" ELSE "snake_case",
                     minorityStyle |-> IF stats.camelCase > stats.snakeCase
                                       THEN "snake_case" ELSE "camelCase",
                     percent |-> PercentTenths(minority, majority + minority)]>>
             ELSE <<>>

\* the most keys of one style in a subtree
MaxKeys == 8

\* the most keys of neither style in a subtree
MaxOtherKeys == 2

\* the i-th camelCase, snake_case and PascalCase property name
CamelKey(i) == <<"c", "K", Digits[i]>>
SnakeKey(i) == <<"s", "_", "k", Digits[i]>>
OtherKey(i) == <<"P", "k", Digits[i]>>

\* an object with c camelCase, s snake_case and n other properties
Properties(c, s, n) ==
    Obj([k \in {CamelKey(i) : i \in 1..c} \cup {SnakeKey(i) : i \in 1..s}
                \cup {OtherKey(i) : i \in 1..n} |-> Obj(KeyType :> Str("string"))])

CasingShapes == {"bare", "schema", "array"}

\* the subtree handed to the function: the properties themselves, a schema
\* {type, required, properties}, or an array schema {type, items: {properties}}
Subtree(c, s, n, shape) ==
    CASE shape = "bare" -> Properties(c, s, n)
      [] shape = "schema" ->
            Obj((KeyType :> Str("object"))
                @@ (KeyRequired :> Arr(<<Str("id")>>))
                @@ (KeyProperties :> Properties(c, s, n)))
      [] shape = "array" ->
            Obj((KeyType :> Str("array"))
                @@ (KeyItems :> Obj((KeyType :> Str("object"))
                                    @@ (KeyProperties :> Properties(c, s, n)))))

InitCasing ==
    /\ scoringFile = DefaultScoring
    /\ rulesetFile = DefaultRuleset
    /\ validation = Undefined
    /\ loaderScoringConfig = Undefined
    /\ loaderRulesetConfig = Undefined
    /\ scoringConfig = Undefined
    /\ rulesetConfig = Undefined
    /\ result = Undefined
    /\ call \in [fn : {"consistentCasing"}, camel : 0..MaxKeys, snake : 0..MaxKeys,
                 other : 0..MaxOtherKeys, shape : CasingShapes, returned : {<<>>}]
    /\ pc = "new"

CallConsistentCasing ==
    /\ pc = "new"
    /\ call' = [call EXCEPT !.returned =
                    consistentCasing(Subtree(call.camel, call.snake, call.other,
                                             call.shape))]
    /\ pc' = "called"
    /\ UNCHANGED <<scoringFile, rulesetFile, validation, loaderScoringConfig,
                   loaderRulesetConfig, scoringConfig, rulesetConfig, result>>

SpecCasing == InitCasing /\ [][CallConsistentCasing]_vars

-----------------------------------------------------------------------------
(* The traversal of countCasingStyles on nested documents *)

\* the deepest nesting of the documents
MaxDepth == 3

\* values that are no object
Leaves == {Str("x"), Null}

\* the keys of the documents: a camelCase and a snake_case name, the two
\* ignored keys that are descended into, and two that are not
TraversalKeys ==
    {CamelKey(1), SnakeKey(1), KeyProperties, KeyItems, KeyExample, KeyDescription}

\* the values nested at most d deep: a leaf, an object with one key, or an
\* array with one element
RECURSIVE NestedUpTo(_)
NestedUpTo(d) ==
    IF d = 0 THEN Leaves
    ELSE LET below == NestedUpTo(d - 1)
         IN  below \cup {Obj(k :> v) : k \in TraversalKeys, v \in below}
                   \cup {Arr(<<v>>) : v \in below}

\* objects with two keys, one of them counted and one of them ignored
Siblings ==
    {Obj((ks[1] :> v) @@ (ks[2] :> w)) :
        ks \in {<<CamelKey(1), KeyProperties>>, <<SnakeKey(1), KeyExample>>,
                <<CamelKey(1), KeyItems>>},
        v \in NestedUpTo(1), w \in NestedUpTo(1)}

Documents == NestedUpTo(MaxDepth) \cup Siblings

InitTraversal ==
    /\ scoringFile = DefaultScoring
    /\ rulesetFile = DefaultRuleset
    /\ validation = Undefined
    /\ loaderScoringConfig = Undefined
    /\ loaderRulesetConfig = Undefined
    /\ scoringConfig = Undefined
    /\ rulesetConfig = Undefined
    /\ result = Undefined
    /\ call \in [fn : {"countCasingStyles"}, obj : Documents, returned : {NoStats}]
    /\ pc = "new"

CallCountCasingStyles ==
    /\ pc = "new"
    /\ call' = [call EXCEPT !.returned = countCasingStyles(call.obj)]
    /\ pc' = "called"
    /\ UNCHANGED <<scoringFile, rulesetFile, validation, loaderScoringConfig,
                   loaderRulesetConfig, scoringConfig, rulesetConfig, result>>

SpecTraversal == InitTraversal /\ [][CallCountCasingStyles]_vars

-----------------------------------------------------------------------------
(* Concurrent audits: two audit calls in flight on one Auditor *)

\* the longest list of findings an evaluation hands to one of the calls
MaxFindings == 1

Calls == {"first", "second"}

FilePaths == {"api.yaml", "other.yaml"}

\* an Error object; a message is the sequence of the parts of its text
Error(message) == [t |-> "error", message |-> message]

\* what the file system or the rule engine throws: an Error, or a value
\* that is no Error
ThrownValues == {Error(<<"boom">>), Str("boom")}

\* error instanceof Error ? error.message : 'Unknown error'
MessageOf(error) ==
    IF error.t = "error" THEN error.message ELSE <<"Unknown error">>

\* the file path is left out of the message
AuditFailedUnnamed(filePath, error) ==
    [outcome |-> "threw",
     error |-> Error(<<"Audit failed: ">> \o MessageOf(error))]

\* catch (error): throw new Error(`Audit failed for ${filePath}: ${message}`)
AuditFailed(filePath, error) ==
    [outcome |-> "threw",
     error |-> Error(<<"Audit failed for ", filePath, ": ">> \o MessageOf(error))]

\* throw new Error(`File not found: ${filePath}`)
FileNotFound(filePath) == Error(<<"File not found: ", filePath>>)

\* an error of a fatal rule, a warning and a hint
AuditFindings ==
    SeqsUpTo({[code |-> SecAuth, severity |-> 0], [code |-> ComDoc, severity |-> 1],
              [code |-> CnsMix, severity |-> 3]}, MaxFindings)

AuditorScoringFiles ==
    {DefaultScoring,
     ScoringConfig(N(100), Obj(ArchWeights), ZeroPenalties, DefaultScale)}

AuditorRulesetFiles ==
    {DefaultRuleset,
     Ruleset(Undefined, Obj([DefaultRules EXCEPT ![ComDoc] =
         Rule(Str("descriptions"), Str("warn"), Arr(<<Str("security")>>),
              Clause("defined"))]))}

\* an audit call that has not started: its stage, its argument, its local
\* hasResolutionErrors, and what the file system, the resolver and the rule
\* engine answered to it
Idle ==
    [stage |-> "idle", filePath |-> "", hasResolutionErrors |-> FALSE,
     exists |-> FALSE, resolution |-> "none", evaluation |-> "none",
     thrown |-> Undefined, spectralResults |-> <<>>]

\* the Auditor has been constructed from the two files; no call is running
InitAudits ==
    /\ scoringFile \in AuditorScoringFiles
    /\ rulesetFile \in AuditorRulesetFiles
    /\ validation = Undefined
    /\ LET configs == loadAll(Undefined, Undefined, scoringFile, rulesetFile)
       IN  /\ loaderScoringConfig = configs.scoringCache
           /\ loaderRulesetConfig = configs.rulesetCache
           /\ scoringConfig = configs.scoring
           /\ rulesetConfig = configs.ruleset
    /\ result = [c \in Calls |-> Undefined]
    /\ call = [c \in Calls |-> Idle]
    /\ pc = "audits"

\* audit(filePath) up to its first await: a file that does not exist ends
\* the call by an exception, otherwise the resolution is started
AuditBegin(c) ==
    /\ pc = "audits"
    /\ call[c].stage \in {"idle", "done"}
    /\ \E filePath \in FilePaths, exists \in BOOLEAN :
        IF exists
        THEN /\ call' = [call EXCEPT ![c] =
                    [Idle EXCEPT !.stage = "resolving", !.filePath = filePath,
                                 !.exists = TRUE]]
             /\ result' = [result EXCEPT ![c] = Undefined]
        ELSE /\ call' = [call EXCEPT ![c] =
                    [Idle EXCEPT !.stage = "done", !.filePath = filePath]]
             /\ result' = [result EXCEPT ![c] =
                    AuditFailed(filePath, FileNotFound(filePath))]
    /\ UNCHANGED <<scoringFile, rulesetFile, validation, loaderScoringConfig,
                   loaderRulesetConfig, scoringConfig, rulesetConfig, pc>>

\* hasResolutionErrors is kept on the Auditor, where the calls share it
AuditResolvedOnInstance(c) ==
    /\ pc = "audits"
    /\ call[c].stage = "resolving"
    /\ \E resolved \in BOOLEAN :
        call' = [d \in Calls |->
                    IF d = c
                    THEN [call[d] EXCEPT !.stage = "evaluating",
                                         !.resolution = IF resolved THEN "ok" ELSE "failed",
                                         !.hasResolutionErrors = ~resolved]
                    ELSE IF call[d].stage = "evaluating"
                    THEN [call[d] EXCEPT !.hasResolutionErrors = ~resolved]
                    ELSE call[d]]
    /\ UNCHANGED <<scoringFile, rulesetFile, validation, loaderScoringConfig,
                   loaderRulesetConfig, scoringConfig, rulesetConfig, result, pc>>

\* resolveDocument has settled: a failure is only remembered by the call,
\* which reads the file and starts the rule evaluation
AuditResolved(c) ==
    /\ pc = "audits"
    /\ call[c].stage = "resolving"
    /\ \E resolved \in BOOLEAN :
        call' = [call EXCEPT ![c].stage = "evaluating",
                             ![c].resolution = IF resolved THEN "ok" ELSE "failed",
                             ![c].hasResolutionErrors = ~resolved]
    /\ UNCHANGED <<scoringFile, rulesetFile, validation, loaderScoringConfig,
                   loaderRulesetConfig, scoringConfig, rulesetConfig, result, pc>>

\* the findings of every call are kept on the Auditor and scored together
AuditEvaluatedTogether(c) ==
    /\ pc = "audits"
    /\ call[c].stage = "evaluating"
    /\ \E spectralResults \in AuditFindings :
        /\ call' = [call EXCEPT ![c].stage = "done", ![c].evaluation = "returned",
                                ![c].spectralResults = spectralResults]
        /\ validation' = IF validation = Undefined THEN Arr(spectralResults)
                         ELSE Arr(validation.v \o spectralResults)
        /\ result' = [result EXCEPT ![c] =
               AuditResult(validation'.v, scoringConfig, rulesetConfig,
                           call[c].hasResolutionErrors)]
    /\ UNCHANGED <<scoringFile, rulesetFile, loaderScoringConfig,
                   loaderRulesetConfig, scoringConfig, rulesetConfig, pc>>

\* the rule evaluation has returned its findings: the call builds its result
AuditEvaluated(c) ==
    /\ pc = "audits"
    /\ call[c].stage = "evaluating"
    /\ \E spectralResults \in AuditFindings :
        /\ call' = [call EXCEPT ![c].stage = "done", ![c].evaluation = "returned",
                                ![c].spectralResults = spectralResults]
        /\ result' = [result EXCEPT ![c] =
               AuditResult(spectralResults, scoringConfig, rulesetConfig,
                           call[c].hasResolutionErrors)]
    /\ UNCHANGED <<scoringFile, rulesetFile, validation, loaderScoringConfig,
                   loaderRulesetConfig, scoringConfig, rulesetConfig, pc>>

\* reading the file or evaluating the rules throws: the call wraps the error
AuditEvaluationThrew(c) ==
    /\ pc = "audits"
    /\ call[c].stage = "evaluating"
    /\ \E error \in ThrownValues :
        /\ call' = [call EXCEPT ![c].stage = "done", ![c].evaluation = "threw",
                                ![c].thrown = error]
        /\ result' = [result EXCEPT ![c] = AuditFailed(call[c].filePath, error)]
    /\ UNCHANGED <<scoringFile, rulesetFile, validation, loaderScoringConfig,
                   loaderRulesetConfig, scoringConfig, rulesetConfig, pc>>

NextAudits ==
    \/ \E c \in Calls : AuditBegin(c)
    \/ \E c \in Calls : AuditResolved(c)
    \/ \E c \in Calls : AuditEvaluated(c)
    \/ \E c \in Calls : AuditEvaluationThrew(c)

SpecAudits == InitAudits /\ [][NextAudits]_vars

-----------------------------------------------------------------------------
(* The command line: auditapi audit <file> --fail-on <grade> *)

\* 'A': 5, 'B': 4, 'C': 3, 'D': 2, 'F': 1
GRADE_ORDER == ("A" :> 5) @@ ("B" :> 4) @@ ("C" :> 3) @@ ("D" :> 2) @@ ("F" :> 1)

\* the minimum grade itself does not pass
meetsMinimumGradeStrictly(actualGrade, minimumGrade) ==
    GRADE_ORDER[actualGrade] > GRADE_ORDER[minimumGrade]

meetsMinimumGrade(actualGrade, minimumGrade) ==
    GRADE_ORDER[actualGrade] >= GRADE_ORDER[minimumGrade]

\* the letters the option values are written with
LowerLetters == <<"a", "b", "c", "d", "e", "f">>
UpperLetters == <<"A", "B", "C", "D", "E", "F">>

\* s.toUpperCase() of a string given as the sequence of its characters
toUpperCase(s) ==
    [i \in 1..Len(s) |->
        IF \E k \in 1..Len(LowerLetters) : LowerLetters[k] = s[i]
        THEN UpperLetters[CHOOSE k \in 1..Len(LowerLetters) : LowerLetters[k] = s[i]]
        ELSE s[i]]

validGrades == {<<"A">>, <<"B">>, <<"C">>, <<"D">>, <<"F">>}

\* the values given to --fail-on: the grades, in either case, and values
\* that are no grade
FailOnValues ==
    {<<"A">>, <<"B">>, <<"C">>, <<"D">>, <<"F">>, <<"b">>, <<"f">>, <<"E">>,
     <<"A", "B">>, <<>>}

\* scoring.yaml files whose base score puts a document with few findings
\* into each of the grades, and one the loader turns down
CliScoringFiles ==
    {ScoringConfig(N(b), Obj(DefaultWeights), FatalPenalties, DefaultScale) :
        b \in {100, 85, 75, 65, 50}}
    \cup {Null}

\* how the run ends: the exit status, and the grade of the result when the
\* audit returned one
Exit(status, grade) == [outcome |-> "exited", status |-> status, grade |-> grade]

\* the command is started with its options, the state of the file system
\* and the configuration directory
InitCli ==
    /\ scoringFile \in CliScoringFiles
    /\ rulesetFile = DefaultRuleset
    /\ validation = Undefined
    /\ loaderScoringConfig = Undefined
    /\ loaderRulesetConfig = Undefined
    /\ scoringConfig = Undefined
    /\ rulesetConfig = Undefined
    /\ result = Undefined
    /\ call \in [failOn : FailOnValues, fileExists : BOOLEAN,
                 configExists : BOOLEAN, output : {"none", "written", "fails"}]
    /\ pc = "cli"

\* the action of the audit command up to its await: the file, the
\* configuration directory and the --fail-on value are checked, the
\* configuration is loaded and the Auditor constructed from the same loader
CliAudit ==
    /\ pc = "cli"
    /\ LET failOnGrade == toUpperCase(call.failOn)
           configs == loadAll(loaderScoringConfig, loaderRulesetConfig,
                              scoringFile, rulesetFile)
       IN  IF ~call.fileExists \/ ~call.configExists \/ failOnGrade \notin validGrades
           THEN /\ result' = Exit(1, "")
                /\ pc' = "cliExited"
                /\ UNCHANGED <<loaderScoringConfig, loaderRulesetConfig,
                               scoringConfig, rulesetConfig>>
           ELSE /\ loaderScoringConfig' = configs.scoringCache
                /\ loaderRulesetConfig' = configs.rulesetCache
                /\ IF configs.outcome = "threw"
                   THEN /\ result' = Exit(1, "")
                        /\ pc' = "cliExited"
                        /\ UNCHANGED <<scoringConfig, rulesetConfig>>
                   ELSE /\ scoringConfig' = configs.scoring
                        /\ rulesetConfig' = configs.ruleset
                        /\ pc' = "cliAuditing"
                        /\ UNCHANGED result
    /\ UNCHANGED <<scoringFile, rulesetFile, validation, call>>

\* auditor.audit has returned: the output is written or printed and the
\* exit status follows from the grade; a failing write ends in the catch
CliAuditReturned ==
    /\ pc = "cliAuditing"
    /\ \E spectralResults \in AuditFindings, hasResolutionErrors \in BOOLEAN :
        LET audited == AuditResult(spectralResults, scoringConfig, rulesetConfig,
                                   hasResolutionErrors)
            passed == meetsMinimumGrade(audited.grade, toUpperCase(call.failOn)[1])
        IN  result' = IF call.output = "fails" THEN Exit(1, audited.grade)
                      ELSE IF ~passed THEN Exit(1, audited.grade)
                      ELSE Exit(0, audited.grade)
    /\ pc' = "cliExited"
    /\ UNCHANGED <<scoringFile, rulesetFile, validation, loaderScoringConfig,
                   loaderRulesetConfig, scoringConfig, rulesetConfig, call>>

\* auditor.audit has thrown: the catch reports the error and exits
CliAuditThrew ==
    /\ pc = "cliAuditing"
    /\ result' = Exit(1, "")
    /\ pc' = "cliExited"
    /\ UNCHANGED <<scoringFile, rulesetFile, validation, loaderScoringConfig,
                   loaderRulesetConfig, scoringConfig, rulesetConfig, call>>

NextCli ==
    \/ CliAudit
    \/ CliAuditReturned
    \/ CliAuditThrew

SpecCli == InitCli /\ [][NextCli]_vars

-----------------------------------------------------------------------------
(* An Auditor whose ConfigLoader is cleared and reloaded after construction *)

\* two scoring files the loader accepts and one it turns down
ReloadScoringFiles ==
    {DefaultScoring,
     ScoringConfig(N(65), Obj(DefaultWeights), NoPenalties, DefaultScale),
     Null}

\* the Auditor has been constructed from the two files: the configurations
\* loadAll returned to the constructor are kept on record
InitReload ==
    /\ scoringFile \in ReloadScoringFiles \ {Null}
    /\ rulesetFile \in AuditorRulesetFiles
    /\ LET configs == loadAll(Undefined, Undefined, scoringFile, rulesetFile)
       IN  /\ loaderScoringConfig = configs.scoringCache
           /\ loaderRulesetConfig = configs.rulesetCache
           /\ scoringConfig = configs.scoring
           /\ rulesetConfig = configs.ruleset
           /\ validation = [scoring |-> configs.scoring, ruleset |-> configs.ruleset]
    /\ result = Undefined
    /\ call = Undefined
    /\ pc = "reload"

\* clearCache() on the loader the Auditor was constructed with
ReloadClearCache ==
    /\ pc = "reload"
    /\ loaderScoringConfig' = Undefined
    /\ loaderRulesetConfig' = Undefined
    /\ UNCHANGED <<scoringFile, rulesetFile, validation, scoringConfig,
                   rulesetConfig, result, call, pc>>

\* the configuration files are edited on disk
ReloadChangeFiles ==
    /\ pc = "reload"
    /\ scoringFile' \in ReloadScoringFiles
    /\ rulesetFile' \in AuditorRulesetFiles
    /\ <<scoringFile', rulesetFile'>> # <<scoringFile, rulesetFile>>
    /\ UNCHANGED <<validation, loaderScoringConfig, loaderRulesetConfig,
                   scoringConfig, rulesetConfig, result, call, pc>>

\* the Auditor takes over what the loader has just loaded
ReloadLoadAllIntoAuditor ==
    /\ pc = "reload"
    /\ LET configs == loadAll(loaderScoringConfig, loaderRulesetConfig,
                              scoringFile, rulesetFile)
       IN  /\ loaderScoringConfig' = configs.scoringCache
           /\ loaderRulesetConfig' = configs.rulesetCache
           /\ scoringConfig' =
                  IF configs.outcome = "returned" THEN configs.scoring ELSE scoringConfig
           /\ rulesetConfig' =
                  IF configs.outcome = "returned" THEN configs.ruleset ELSE rulesetConfig
    /\ UNCHANGED <<scoringFile, rulesetFile, validation, result, call, pc>>

\* loadAll() on the loader, by somebody other than the Auditor
ReloadLoadAll ==
    /\ pc = "reload"
    /\ LET configs == loadAll(loaderScoringConfig, loaderRulesetConfig,
                              scoringFile, rulesetFile)
       IN  /\ loaderScoringConfig' = configs.scoringCache
           /\ loaderRulesetConfig' = configs.rulesetCache
    /\ UNCHANGED <<scoringFile, rulesetFile, validation, scoringConfig,
                   rulesetConfig, result, call, pc>>

\* an audit of an existing file from start to end; the result is kept with
\* what the call was given and with what the loader held at that time
ReloadAudit ==
    /\ pc = "reload"
    /\ \E spectralResults \in AuditFindings, hasResolutionErrors \in BOOLEAN :
        result' = [spectralResults |-> spectralResults,
                   hasResolutionErrors |-> hasResolutionErrors,
                   loaderScoringConfig |-> loaderScoringConfig,
                   audit |-> AuditResult(spectralResults, scoringConfig,
                                         rulesetConfig, hasResolutionErrors)]
    /\ UNCHANGED <<scoringFile, rulesetFile, validation, loaderScoringConfig,
                   loaderRulesetConfig, scoringConfig, rulesetConfig, call, pc>>

NextReload ==
    \/ ReloadClearCache
    \/ ReloadChangeFiles
    \/ ReloadLoadAll
    \/ ReloadAudit

SpecReload == InitReload /\ [][NextReload]_vars

-----------------------------------------------------------------------------
(* Claims *)

\* an audit call has returned an AuditResult
Returned == pc = "done" /\ result.outcome = "returned"

\* the rule identifiers whose configured penalty has fatal = true
FatalRules(config) ==
    {id \in Keys(Get(config, "penalties")) :
        Get(Get(config, "penalties").f[id], "fatal") = Bool(TRUE)}

AnyFatal ==
    \E i \in 1..Len(result.violations) :
        result.violations[i].ruleId \in FatalRules(scoringConfig)

\* C1: when a violation's rule has a penalty with fatal = true the result has
\* finalScore 0 and hasFatalErrors true, whatever else was found; when no
\* violation has such a penalty hasFatalErrors is false
C1_FatalOverride ==
    Returned =>
        /\ AnyFatal => (result.finalScore = Num(0) /\ result.hasFatalErrors = TRUE)
        /\ ~AnyFatal => result.hasFatalErrors = FALSE

\* a fatal violation beside one that is not fatal and has points to deduct
C1_Witness ==
    /\ Returned
    /\ Len(result.violations) = 2
    /\ result.violations[1].ruleId \in FatalRules(scoringConfig)
    /\ result.violations[2].ruleId \notin FatalRules(scoringConfig)
    /\ result.finalScore = Num(0)
    /\ result.hasFatalErrors

\* the points the claim gives one violation: the configured points when the
\* rule has a penalty entry, else 10, 5 or 2 by severity
ClaimedPoints(v) ==
    IF v.ruleId \in Keys(Get(scoringConfig, "penalties"))
    THEN Get(Get(scoringConfig, "penalties").f[v.ruleId], "points").v
    ELSE IF v.severity = "error" THEN 10 * Milli
    ELSE IF v.severity = "warn" THEN 5 * Milli
    ELSE 2 * Milli

RECURSIVE ClaimedCategoryPoints(_, _, _)
ClaimedCategoryPoints(vs, n, category) ==
    IF n = 0 THEN 0
    ELSE ClaimedCategoryPoints(vs, n - 1, category)
         + (IF getRuleCategory(vs[n].ruleId, TagsOf(rulesetConfig, vs[n].ruleId)) = category
            THEN ClaimedPoints(vs[n]) ELSE 0)

\* the sum over the four categories of points x weight, in thousandths
ClaimedTotalPenalty ==
    LET pts(c) == ClaimedCategoryPoints(result.violations, Len(result.violations), c)
        w(c) == Get(Get(scoringConfig, "weights"), c).v
    IN  (pts("security") * w("security") + pts("completeness") * w("completeness")
         + pts("structure") * w("structure") + pts("consistency") * w("consistency"))
        \div Milli

ClaimedScore ==
    LET raw == Get(scoringConfig, "base_score").v - ClaimedTotalPenalty
        floored == IF raw < 0 THEN 0 ELSE raw
    IN  \* the nearest whole number, a half rounded up
        IF floored % Milli >= Milli \div 2
        THEN floored - (floored % Milli) + Milli
        ELSE floored - (floored % Milli)

\* C2: with no fatal violation, finalScore is round(max(0, base_score -
\* totalPenalty)), totalPenalty being the sum over the four categories of
\* pointsDeducted x weight, and pointsDeducted adding per violation the
\* configured points of its rule (also when they are 0) or else the default
\* 10, 5 or 2 of its severity
C2_WeightedScore ==
    (Returned /\ ~AnyFatal) =>
        /\ result.finalScore = Num(ClaimedScore)
        /\ \A i \in 1..Len(categories) :
             result.categoryBreakdown[i].pointsDeducted =
                Num(ClaimedCategoryPoints(result.violations, Len(result.violations),
                                          categories[i]))

\* a violation whose rule has a penalty of 0 points beside one with no
\* penalty entry, and a score that lost points
C2_Witness ==
    /\ Returned /\ ~AnyFatal
    /\ Len(result.violations) = 2
    /\ result.violations[1].ruleId \in Keys(Get(scoringConfig, "penalties"))
    /\ ClaimedPoints(result.violations[1]) = 0
    /\ result.violations[2].ruleId \notin Keys(Get(scoringConfig, "penalties"))
    /\ result.finalScore.v < Get(scoringConfig, "base_score").v
    /\ result.finalScore.v > 0

C4_FatalGradeIsF ==
    (Returned /\ result.hasFatalErrors) => result.grade = "F"

\* A is the best grade and F the worst
Rank(g) ==
    CASE g = "A" -> 5 [] g = "B" -> 4 [] g = "C" -> 3 [] g = "D" -> 2 [] g = "F" -> 1

Graded == pc = "called" /\ call.fn = "calculateGrade"

\* C5: for two scores s1 > s2 the grade of s1 is never worse than that of s2
C5_GradeMonotonic ==
    Graded => (call.s1.v > call.s2.v => Rank(call.g1) >= Rank(call.g2))

\* two scores that get different grades, on a scale that does not list its
\* ranges from F up to A
C5_Witness ==
    /\ Graded
    /\ call.s1.v > call.s2.v
    /\ Rank(call.g1) > Rank(call.g2)
    /\ Get(scoringFile, "grading_scale") \notin
          {ContiguousScale(Ascending, c.cuts, c.top) :
              c \in {DefaultCuts, HighACuts, PartialCuts}}

\* the score lies in the inclusive range the scale gives the grade
InRange(score, scale, g) ==
    /\ Get(scale, g).t = "obj"
    /\ Get(Get(scale, g), "min").v <= score.v
    /\ score.v <= Get(Get(scale, g), "max").v

\* C6: on an accepted scale the letter returned for a whole score in 0..100
\* is the grade whose range [min, max] contains the score
C6_GradeContainsScore ==
    (Graded /\ validateScoringConfig(scoringFile).success
            /\ call.s1.v % Milli = 0 /\ call.s1.v >= 0 /\ call.s1.v <= 100 * Milli)
        => InRange(call.s1, Get(scoringFile, "grading_scale"), call.g1)

\* C7: base_score 100, completeness weight 0.25 and one completeness
\* violation with an explicit non-fatal penalty of 30 points give finalScore
\* 93, and grade A whenever the A minimum of the scale is at most 93
C7_EndToEndExample ==
    (/\ Returned
     /\ Get(scoringConfig, "base_score") = N(100)
     /\ Get(Get(scoringConfig, "weights"), "completeness") = Num(250)
     /\ Len(result.violations) = 1
     /\ LET v == result.violations[1]
        IN  /\ getRuleCategory(v.ruleId, TagsOf(rulesetConfig, v.ruleId)) = "completeness"
            /\ Get(Get(scoringConfig, "penalties"), v.ruleId) = Penalty(30, FALSE))
        => /\ result.finalScore = N(93)
           /\ Get(Get(Get(scoringConfig, "grading_scale"), "A"), "min").v <= 93 * Milli
                => result.grade = "A"

Validated == pc \in {"validatedScoring", "validatedRuleset"}

\* C8: both validators return without throwing, and return either success
\* with data and no errors or failure with a non-empty errors list and no data
C8_ValidatorsTotal ==
    Validated =>
        /\ validation.outcome = "returned"
        /\ validation.success =>
              (validation.data.t # "undefined" /\ validation.errors.t = "undefined")
        /\ ~validation.success =>
              (validation.data.t = "undefined" /\ validation.errors.t = "arr"
               /\ Len(validation.errors.v) > 0)

\* the five category weights are present, are numbers and sum to 1.0 within
\* 0.001
FiveWeightsSumToOne(weights) ==
    /\ \A c \in categorySet : Has(weights, c) /\ Get(weights, c).t = "num"
    /\ Abs(SumNums(weights.f, categorySet) - Milli) <= 1

\* the config with the weight of category c moved by d thousandths
MovedWeight(config, c, d) ==
    Obj([config.f EXCEPT !["weights"] =
            Obj([@.f EXCEPT ![c] = Num(@.v + d)])])

\* C9: a config is accepted only if the five category weights are present
\* and sum to 1.0 within 0.001, and moving one weight of an accepted config
\* so that the sum leaves the tolerance makes validation fail
C9_WeightsSumToOne ==
    (pc = "validatedScoring" /\ validation.outcome = "returned" /\ validation.success)
        => /\ FiveWeightsSumToOne(Get(scoringFile, "weights"))
           /\ \A c \in categorySet, d \in {-3, -2, -1, 1, 2, 3} :
                ~FiveWeightsSumToOne(Get(MovedWeight(scoringFile, c, d), "weights"))
                    => ~validateScoringConfig(MovedWeight(scoringFile, c, d)).success

\* every grade of the scale is an object with numbers min <= max
WellFormedRanges(scale) ==
    \A g \in gradeSet :
        /\ Has(scale, g) /\ Get(scale, g).t = "obj"
        /\ Get(Get(scale, g), "min").t = "num" /\ Get(Get(scale, g), "max").t = "num"
        /\ Get(Get(scale, g), "min").v <= Get(Get(scale, g), "max").v

\* the whole numbers of the range of grade g
RangeOf(scale, g) ==
    {n \in -1..101 : Get(Get(scale, g), "min").v <= n * Milli
                     /\ n * Milli <= Get(Get(scale, g), "max").v}

\* the ranges are pairwise disjoint and their union has no hole
DisjointAndContiguous(scale) ==
    /\ \A g, h \in gradeSet : g # h => RangeOf(scale, g) \cap RangeOf(scale, h) = {}
    /\ LET all == UNION {RangeOf(scale, g) : g \in gradeSet}
       IN  \A a \in all, b \in all, n \in -1..101 : (a < n /\ n < b) => n \in all

\* with the grades sorted by max, each max + 1 is the next min
AdjacentWhenSorted(scale) ==
    \A g \in gradeSet :
        \/ \A h \in gradeSet : Get(Get(scale, h), "max").v <= Get(Get(scale, g), "max").v
        \/ \E h \in gradeSet :
              Get(Get(scale, g), "max").v + Milli = Get(Get(scale, h), "min").v

\* C10: a scale is accepted only if all five grades are present with
\* min <= max and, sorted by max, each max + 1 equals the next min; so the
\* ranges of an accepted scale are pairwise disjoint and contiguous
C10_ScaleContiguous ==
    (pc = "validatedScoring" /\ validation.outcome = "returned" /\ validation.success)
        => /\ WellFormedRanges(Get(scoringFile, "grading_scale"))
           /\ AdjacentWhenSorted(Get(scoringFile, "grading_scale"))
           /\ DisjointAndContiguous(Get(scoringFile, "grading_scale"))

\* an accepted scoring document has been validated
Accepted ==
    pc = "validatedScoring" /\ validation.outcome = "returned" /\ validation.success

\* the grades of the scale whose entry is a {min, max} object of numbers
RangedGrades(scale) ==
    {g \in gradeSet : /\ Get(scale, g).t = "obj"
                      /\ Get(Get(scale, g), "min").t = "num"
                      /\ Get(Get(scale, g), "max").t = "num"}

\* C11: an accepted grading scale covers exactly the scores 0 to 100: the
\* smallest min over the five grades is 0 and the largest max is 100
C11_ScaleCoversRange ==
    Accepted =>
        LET scale == Get(scoringFile, "grading_scale")
        IN  /\ RangedGrades(scale) = gradeSet
            /\ \E g \in gradeSet : Get(Get(scale, g), "min") = N(0)
            /\ \A g \in gradeSet : Get(Get(scale, g), "min").v >= 0
            /\ \E g \in gradeSet : Get(Get(scale, g), "max") = N(100)
            /\ \A g \in gradeSet : Get(Get(scale, g), "max").v <= 100 * Milli

\* a penalties entry of the documented shape {points: number >= 0, fatal: boolean}
WellFormedPenalty(entry) ==
    /\ entry.t = "obj"
    /\ Get(entry, "points").t = "num" /\ Get(entry, "points").v >= 0
    /\ Get(entry, "fatal").t = "bool"

\* C12: in an accepted scoring config every category weight is non-negative
\* and every penalties entry has non-negative points and a boolean fatal
C12_NonNegativeEntries ==
    Accepted =>
        /\ \A c \in categorySet :
              /\ Get(Get(scoringFile, "weights"), c).t = "num"
              /\ Get(Get(scoringFile, "weights"), c).v >= 0
        /\ \A id \in Keys(Get(scoringFile, "penalties")) :
              WellFormedPenalty(Get(Get(scoringFile, "penalties"), id))

\* C13: the finalScore of an audit result is a whole number from 0 to 100
C13_ScoreInRange ==
    Returned =>
        /\ result.finalScore.t = "num"
        /\ result.finalScore.v % Milli = 0
        /\ result.finalScore.v >= 0
        /\ result.finalScore.v <= 100 * Milli

\* the rule has a non-empty string description and a severity of the enumeration
WellFormedRule(rule) ==
    /\ rule.t = "obj"
    /\ Get(rule, "description").t = "str" /\ Get(rule, "description").v # ""
    /\ ValidSeverity(Get(rule, "severity"))

\* some error of the list names the rule identifier
ErrorNames(errors, id) ==
    \E i \in 1..Len(errors) : Len(errors[i]) >= 2 /\ errors[i][2] = id

\* C14: a ruleset is accepted only if every rule has a non-empty string
\* description and a severity among error, warn, info, hint; the errors of a
\* rejected ruleset name every offending rule identifier
C14_RulesReported ==
    (pc = "validatedRuleset" /\ validation.outcome = "returned"
       /\ IsObject(rulesetFile) /\ IsObject(Get(rulesetFile, "rules")))
        => LET rules == Get(rulesetFile, "rules")
           IN  /\ validation.success =>
                     \A id \in Keys(rules) : WellFormedRule(Get(rules, id))
               /\ ~validation.success =>
                     \A id \in Keys(rules) :
                        ~WellFormedRule(Get(rules, id))
                            => ErrorNames(validation.errors.v, id)

\* a fresh loadRulesetConfig or loadAll has read a ruleset file that the
\* validator accepts
RulesetRead ==
    /\ pc = "loader" /\ call # Undefined
    /\ call.fn \in {"loadRulesetConfig", "loadAll"}
    /\ call.readRuleset
    /\ call.rulesetFile # Missing
    /\ validateRuleset(call.rulesetFile).success

\* the then clauses of rule id of the ruleset
ClausesOf(ruleset, id) ==
    LET rule == Get(Get(ruleset, "rules"), id)
    IN  IF Truthy(Get(rule, "then")) THEN ThenArray(Get(rule, "then")) ELSE <<>>

\* the function names registered in the map
Registered == DOMAIN SPECTRAL_FUNCTION_MAP

\* <<rule identifier, function name>> of every clause that names, by string,
\* a function that is not registered
Unregistered(ruleset) ==
    UNION {{<<id, Get(ClausesOf(ruleset, id)[i], "function").v>> :
              i \in {k \in 1..Len(ClausesOf(ruleset, id)) :
                      /\ Get(ClausesOf(ruleset, id)[k], "function").t = "str"
                      /\ Get(ClausesOf(ruleset, id)[k], "function").v \notin Registered}} :
           id \in Keys(Get(ruleset, "rules"))}

\* C15: loading a ruleset with a then clause that names an unregistered
\* function fails with a ConfigLoadError naming the rule and the function;
\* on success every string function name has been replaced by the
\* registered evaluator
C15_UnknownFunctionFails ==
    RulesetRead =>
        /\ Unregistered(call.rulesetFile) # {} =>
              /\ call.outcome = "threw"
              /\ call.error = "ConfigLoadError"
              /\ call.names \in Unregistered(call.rulesetFile)
        /\ call.outcome = "returned" =>
              \A id \in Keys(Get(call.rulesetFile, "rules")) :
                 \A i \in 1..Len(ClausesOf(call.rulesetFile, id)) :
                    LET before == Get(ClausesOf(call.rulesetFile, id)[i], "function")
                        after == Get(ClausesOf(call.ruleset, id)[i], "function")
                    IN  before.t = "str" =>
                          (before.v \in Registered
                           /\ after = SPECTRAL_FUNCTION_MAP[before.v])

Categorised == pc = "called" /\ call.fn = "getRuleCategory"

\* the tag names of a tag list; none when tags is absent or null
TagSet(tags) ==
    IF tags.t = "arr" THEN {tags.v[i].v : i \in 1..Len(tags.v)} ELSE {}

\* the first four characters of the identifier
Prefix4(id) == IF Len(id) >= 4 THEN SubSeq(id, 1, 4) ELSE <<>>

\* the category the claim gives: the first category, in the order security,
\* completeness, structure, consistency, that is among the tags; else the
\* category of the identifier prefix; else completeness
ClaimedCategory(ruleId, tags) ==
    LET among == {i \in 1..Len(categories) : categories[i] \in TagSet(tags)}
    IN  IF among # {}
        THEN categories[CHOOSE i \in among : \A j \in among : i <= j]
        ELSE CASE Prefix4(ruleId) = <<"s", "e", "c", "-">> -> "security"
               [] Prefix4(ruleId) = <<"c", "o", "m", "-">> -> "completeness"
               [] Prefix4(ruleId) = <<"s", "t", "r", "-">> -> "structure"
               [] Prefix4(ruleId) = <<"c", "n", "s", "-">> -> "consistency"
               [] OTHER -> "completeness"

\* C16: getRuleCategory returns the first of security, completeness,
\* structure, consistency among the tags, else the category of the
\* identifier prefix, else completeness; a tag wins over a conflicting
\* prefix and the result is never architecture
C16_CategoryResolution ==
    Categorised =>
        /\ call.returned = ClaimedCategory(call.ruleId, call.tags)
        /\ call.returned # "architecture"

\* tags listed against the priority order, on a rule whose prefix names a
\* third category
C16_Witness ==
    /\ Categorised
    /\ call.ruleId = SecAuth
    /\ call.tags = Arr(<<Str("consistency"), Str("structure")>>)
    /\ call.returned = "structure"

\* the number of entries of the breakdown whose violations list holds v
TimesListed(v) ==
    Cardinality({i \in 1..Len(result.categoryBreakdown) :
        \E k \in 1..Len(result.categoryBreakdown[i].violations) :
            result.categoryBreakdown[i].violations[k] = v})

RECURSIVE ListedTotal(_)
ListedTotal(n) ==
    IF n = 0 THEN 0
    ELSE ListedTotal(n - 1) + Len(result.categoryBreakdown[n].violations)

\* C17: categoryBreakdown has exactly the entries security, completeness,
\* structure, consistency; every violation is in the list of exactly one of
\* them, and the four list lengths sum to summary.totalViolations
C17_ViolationsPartitioned ==
    Returned =>
        /\ [i \in 1..Len(result.categoryBreakdown) |-> result.categoryBreakdown[i].category]
             = <<"security", "completeness", "structure", "consistency">>
        /\ \A k \in 1..Len(result.violations) : TimesListed(result.violations[k]) = 1
        /\ ListedTotal(Len(result.categoryBreakdown)) = result.summary.totalViolations
        /\ result.summary.totalViolations = Len(result.violations)

\* two violations in two categories, one of them of a rule with two category tags
C17_Witness ==
    /\ Returned
    /\ Len(result.violations) = 2
    /\ result.violations[1].ruleId = CnsMix
    /\ result.violations[2].ruleId = SecAuth
    /\ Len(result.categoryBreakdown[1].violations) = 1
    /\ Len(result.categoryBreakdown[3].violations) = 1

CasingChecked == pc = "called" /\ call.fn = "consistentCasing"

\* the smaller of the two style counts of the subtree that was handed over
Minority == IF call.camel < call.snake THEN call.camel ELSE call.snake

\* C18: consistentCasing returns exactly one finding when total > 5,
\* min(camel, snake) > 0 and min(camel, snake) / (camel + snake) > 0.20, and
\* no finding in every other case
C18_CasingDecision ==
    CasingChecked =>
        IF /\ call.camel + call.snake + call.other > 5
           /\ Minority > 0
           /\ 5 * Minority > call.camel + call.snake
        THEN Len(call.returned) = 1
        ELSE Len(call.returned) = 0

\* a ratio of exactly 0.20 on more than five keys, and no finding
C18_Witness ==
    /\ CasingChecked
    /\ call.camel = 4 /\ call.snake = 1 /\ call.other = 1
    /\ call.shape = "array"
    /\ call.returned = <<>>

\* the step is a call of one of the given loader methods (the files are as
\* they were, and the call is on record afterwards)
LoadStep(fns) ==
    /\ pc = "loader"
    /\ scoringFile' = scoringFile /\ rulesetFile' = rulesetFile
    /\ call' # Undefined
    /\ call'.fn \in fns

\* what a fresh load of the files as they are now validates
FreshScoring == validateScoringConfig(scoringFile).data
FreshRuleset == resolveRuleFunctions(validateRuleset(rulesetFile).data).value

\* the scoring side of one step: a load on a filled cache returns the cached
\* value without reading the file; a load on an empty cache reads the file
\* and returns what it validated; only clearCache empties a filled cache
ScoringCachedOnce ==
    /\ (LoadStep({"loadScoringConfig", "loadAll"}) /\ Truthy(loaderScoringConfig)) =>
          /\ ~call'.readScoring
          /\ loaderScoringConfig' = loaderScoringConfig
          /\ call'.outcome = "returned" => call'.scoring = loaderScoringConfig
    /\ (LoadStep({"loadScoringConfig", "loadAll"}) /\ ~Truthy(loaderScoringConfig)) =>
          /\ call'.readScoring
          /\ call'.outcome = "returned" =>
                (call'.scoring = FreshScoring /\ loaderScoringConfig' = FreshScoring)
    /\ (Truthy(loaderScoringConfig) /\ loaderScoringConfig' # loaderScoringConfig) =>
          (call'.fn = "clearCache" /\ loaderScoringConfig' = Undefined)

\* the same for the ruleset
RulesetCachedOnce ==
    /\ (LoadStep({"loadRulesetConfig"}) /\ Truthy(loaderRulesetConfig)) =>
          /\ ~call'.readRuleset
          /\ loaderRulesetConfig' = loaderRulesetConfig
          /\ call'.outcome = "returned" /\ call'.ruleset = loaderRulesetConfig
    /\ (LoadStep({"loadAll"}) /\ Truthy(loaderRulesetConfig)) =>
          /\ ~call'.readRuleset
          /\ loaderRulesetConfig' = loaderRulesetConfig
          /\ call'.outcome = "returned" => call'.ruleset = loaderRulesetConfig
    /\ (LoadStep({"loadRulesetConfig"}) /\ ~Truthy(loaderRulesetConfig)) =>
          /\ call'.readRuleset
          /\ call'.outcome = "returned" =>
                (call'.ruleset = FreshRuleset /\ loaderRulesetConfig' = FreshRuleset)
    /\ (Truthy(loaderRulesetConfig) /\ loaderRulesetConfig' # loaderRulesetConfig) =>
          (call'.fn = "clearCache" /\ loaderRulesetConfig' = Undefined)

\* C19: a load call returns the value validated by the first successful load
\* since construction or since the last clearCache, whatever the files hold
\* by then, and the first load after a clearCache reads and validates the
\* file again
C19_LoadedOncePerCache == [][ScoringCachedOnce /\ RulesetCachedOnce]_vars

\* a load answered from the cache while the file holds something else, and a
\* load that read the file anew after a clearCache
C19_Witness ==
    /\ pc = "loader" /\ call # Undefined
    /\ call.fn = "loadScoringConfig"
    /\ call.outcome = "returned"
    /\ ~call.readScoring
    /\ call.scoringFile = Missing
    /\ rulesetFile # call.rulesetFile
    /\ Truthy(loaderRulesetConfig)
    /\ loaderRulesetConfig # FreshRuleset

\* C20: when the resolution of an existing file fails, audit still
\* evaluates the rules and returns a result whose notes hold the one
\* warning; when it succeeds the result has no notes; a failed resolution
\* alone never makes audit throw
C20_ResolutionRecoverable ==
    [][/\ (pc = "lintingUnresolved" /\ pc' = "done" /\ result'.outcome = "returned")
            => result'.notes = Arr(<<Str(resolutionNote)>>)
       /\ (pc = "linting" /\ pc' = "done" /\ result'.outcome = "returned")
            => result'.notes = Undefined
       /\ (pc = "lintingUnresolved" /\ pc' = "done" /\ result'.outcome = "threw")
            => result'.cause = "evaluation"
       /\ (pc \in {"ready", "done"} /\ pc' = "done" /\ result' # result)
            => (result'.outcome = "threw" /\ result'.cause = "File not found")
       /\ (pc \in {"ready", "done"} /\ pc' # "done")
            => pc' \in {"linting", "lintingUnresolved"}]_vars

\* a result with findings and the warning, after a failed resolution
C20_Witness ==
    /\ Returned
    /\ result.notes = Arr(<<Str(resolutionNote)>>)
    /\ Len(result.violations) = 2

\* an audit call has ended
Ended(c) == call[c].stage = "done"

\* the text of the error a call threw
FailureText(c) == result[c].error.message

\* C21: audit throws an audit-failure error that names the file path and
\* carries the message of the cause, and returns no result, when the file
\* does not exist or the rule evaluation throws; for a missing file neither
\* the resolution nor the evaluation is started
C21_AuditFailure ==
    \A c \in Calls :
        /\ (Ended(c) /\ ~call[c].exists) =>
            /\ result[c].outcome = "threw"
            /\ FailureText(c) = <<"Audit failed for ", call[c].filePath, ": ",
                                  "File not found: ", call[c].filePath>>
            /\ call[c].resolution = "none"
            /\ call[c].evaluation = "none"
        /\ (Ended(c) /\ call[c].evaluation = "threw") =>
            /\ result[c].outcome = "threw"
            /\ SubSeq(FailureText(c), 1, 3) = <<"Audit failed for ", call[c].filePath, ": ">>
            /\ call[c].thrown.t = "error" =>
                 SubSeq(FailureText(c), 4, Len(FailureText(c))) = call[c].thrown.message

\* one call failed on a missing file while the other's evaluation threw an
\* Error, on another path
C21_Witness ==
    /\ Ended("first") /\ ~call["first"].exists
    /\ Ended("second") /\ call["second"].evaluation = "threw"
    /\ call["second"].thrown = Error(<<"boom">>)
    /\ call["second"].resolution = "failed"
    /\ call["first"].filePath # call["second"].filePath

\* an audit call has returned an AuditResult
ReturnedBy(c) == Ended(c) /\ call[c].evaluation = "returned"

\* the fields of a result that do not depend on the clock
ScoredFields(r) ==
    <<r.finalScore, r.grade, r.passed, r.hasFatalErrors, r.violations,
      r.categoryBreakdown>>

\* C22: two audit calls on one Auditor that are given the same document and
\* the same outcomes of the resolution and of the evaluation return the same
\* finalScore, grade, passed, hasFatalErrors, violations and
\* categoryBreakdown
C22_Deterministic ==
    (/\ ReturnedBy("first") /\ ReturnedBy("second")
     /\ call["first"].filePath = call["second"].filePath
     /\ call["first"].resolution = call["second"].resolution
     /\ call["first"].spectralResults = call["second"].spectralResults)
    => ScoredFields(result["first"]) = ScoredFields(result["second"])

\* two calls that were given the same finding return the same deductions
C22_Witness ==
    /\ ReturnedBy("first") /\ ReturnedBy("second")
    /\ call["first"].filePath = call["second"].filePath
    /\ call["first"].resolution = "failed" /\ call["second"].resolution = "failed"
    /\ call["first"].spectralResults = call["second"].spectralResults
    /\ Len(result["first"].violations) = 1
    /\ result["first"].finalScore # Num(100 * Milli)
    /\ result["first"] = result["second"]

\* what the Auditor was constructed with: the two configurations loadAll
\* returns for the files
Constructed == loadAll(Undefined, Undefined, scoringFile, rulesetFile)

\* the result of a call that runs alone on the constructed Auditor and is
\* given what the file system, the resolver and the rule engine gave to the
\* call with the record ended
ResultAlone(ended) ==
    IF ~ended.exists
    THEN [outcome |-> "threw",
          error |-> Error(<<"Audit failed for ", ended.filePath, ": ">>
                          \o MessageOf(FileNotFound(ended.filePath)))]
    ELSE IF ended.evaluation = "threw"
    THEN [outcome |-> "threw",
          error |-> Error(<<"Audit failed for ", ended.filePath, ": ">>
                          \o MessageOf(ended.thrown))]
    ELSE AuditResult(ended.spectralResults, Constructed.scoring,
                     Constructed.ruleset, ended.resolution = "failed")

\* C23: a step of an audit call, returning or throwing, leaves the loader's
\* cached configurations and the Auditor's scoringConfig and rulesetConfig
\* unchanged, and under any interleaving of two calls on one Auditor each
\* call ends with the result it gives when it runs alone
C23_CallsIndependent ==
    [][/\ UNCHANGED <<loaderScoringConfig, loaderRulesetConfig, scoringConfig,
                      rulesetConfig>>
       /\ \A c \in Calls :
            (call'[c].stage = "done" /\ call[c].stage # "done")
                => result'[c] = ResultAlone(call'[c])]_vars

\* two calls are in flight on different files: both have been resolved,
\* with opposite outcomes, and both wait for the rule evaluation
C23_Witness ==
    /\ call["first"].stage = "evaluating" /\ call["second"].stage = "evaluating"
    /\ call["first"].resolution = "failed" /\ call["second"].resolution = "ok"
    /\ call["first"].hasResolutionErrors /\ ~call["second"].hasResolutionErrors
    /\ call["first"].filePath # call["second"].filePath

\* the run has ended after an audit that returned a result and an output
\* that was written or printed
CliCompleted == pc = "cliExited" /\ result.grade # "" /\ call.output # "fails"

\* grade g is worse than grade h in the order A > B > C > D > F
Worse(g, h) ==
    LET order == <<"F", "D", "C", "B", "A">>
    IN  IndexOf(order, g) < IndexOf(order, h)

\* C24: after an audit that completes without an error the command exits
\* with a failure status exactly when the grade of the result is worse than
\* the --fail-on grade, and with status 0 otherwise
C24_FailOnExit ==
    CliCompleted =>
        /\ result.status \in {0, 1}
        /\ result.status # 0 <=> Worse(result.grade, toUpperCase(call.failOn)[1])

\* grade B passes --fail-on b, the minimum itself, written in lower case
C24_Witness ==
    /\ CliCompleted
    /\ result.grade = "B"
    /\ call.failOn = <<"b">>
    /\ result.status = 0

\* C25: in every audit result passed is true exactly when the grade is C or
\* better (A, B or C)
C25_PassedFromC ==
    Returned => (result.passed <=> result.grade \in {"A", "B", "C"})

\* countCasingStyles has been applied to a document
Traversed == pc = "called" /\ call.fn = "countCasingStyles"

\* the ignore list as the specification gives it
IgnoreList ==
    {KeyType, KeyFormat, KeyProperties, KeyItems, KeyRequired, KeyDescription,
     KeyExample, KeyExamples}

\* every path of keys that leads from a value to a key below it
RECURSIVE KeyPaths(_)
KeyPaths(value) ==
    IF value.t \notin {"obj", "arr"} THEN {}
    ELSE UNION {{<<k>>} \cup {<<k>> \o p : p \in KeyPaths(ValueAt(value, k))} :
                    k \in ObjectKeys(value)}

\* the key at the end of the path is not ignored and is reached through
\* keys that are not ignored or are properties or items
ReachedAndCounted(path) ==
    /\ path[Len(path)] \notin IgnoreList
    /\ \A i \in 1..(Len(path) - 1) :
        path[i] \notin IgnoreList \/ path[i] \in {KeyProperties, KeyItems}

\* C26: countCasingStyles adds to total exactly the keys that are not in the
\* ignore list and are reached from the root through keys that are not
\* ignored or through the values of properties and items; nothing below
\* another ignored key is counted
C26_CountedKeys ==
    Traversed =>
        call.returned.total =
            Cardinality({p \in KeyPaths(call.obj) : ReachedAndCounted(p)})

\* a snake_case key below items and properties is counted, next to one
\* below example that is not
C26_Witness ==
    /\ Traversed
    /\ call.obj \in Siblings
    /\ KeyExample \in ObjectKeys(call.obj)
    /\ ValueAt(call.obj, KeyExample) = Obj(SnakeKey(1) :> Null)
    /\ ValueAt(call.obj, SnakeKey(1)) = Obj(KeyProperties :> Str("x"))
    /\ call.returned.total = 1

\* C27: the grade of an audit result is the grade calculateGrade assigns to
\* the reported, rounded finalScore of the same result
C27_GradeOfReportedScore ==
    Returned =>
        result.grade = calculateGrade(result.finalScore,
                                      Get(scoringConfig, "grading_scale"))

\* the last call on the loader threw while loading the scoring file
ScoringLoadThrew(last) ==
    /\ last # Undefined
    /\ last.outcome = "threw"
    /\ \/ last.fn = "loadScoringConfig"
       \/ last.fn = "loadAll" /\ ~last.readRuleset

\* the last call on the loader threw while loading the ruleset file; for
\* loadAll the scoring config had been loaded by then
RulesetLoadThrew(last) ==
    /\ last # Undefined
    /\ last.outcome = "threw"
    /\ \/ last.fn = "loadRulesetConfig"
       \/ last.fn = "loadAll" /\ last.readRuleset

\* a load that throws leaves its cache field unset; loadAll that throws on
\* the ruleset leaves the scoring config it validated in the cache
ThrowingLoadCachesNothing ==
    /\ (LoadStep({"loadScoringConfig", "loadAll"}) /\ ScoringLoadThrew(call')) =>
          /\ loaderScoringConfig' = Undefined
          /\ loaderRulesetConfig' = loaderRulesetConfig
    /\ (LoadStep({"loadRulesetConfig", "loadAll"}) /\ RulesetLoadThrew(call')) =>
          loaderRulesetConfig' = Undefined
    /\ (LoadStep({"loadAll"}) /\ RulesetLoadThrew(call')) =>
          /\ Truthy(loaderScoringConfig')
          /\ call'.readScoring => loaderScoringConfig' = FreshScoring
          /\ ~call'.readScoring => loaderScoringConfig' = loaderScoringConfig

\* the load call that follows a throwing one, whatever the files hold by
\* then: it reads the file again, and after a loadAll that threw on the
\* ruleset it returns the cached scoring config without reading its file
NextLoadAfterThrow ==
    /\ (ScoringLoadThrew(call) /\ LoadStep({"loadScoringConfig", "loadAll"})) =>
          call'.readScoring
    /\ (RulesetLoadThrew(call) /\ LoadStep({"loadRulesetConfig"})) =>
          call'.readRuleset
    /\ (RulesetLoadThrew(call) /\ call.fn = "loadAll"
            /\ LoadStep({"loadScoringConfig", "loadAll"})) =>
          /\ ~call'.readScoring
          /\ call'.fn = "loadScoringConfig" => call'.outcome = "returned"
          /\ call'.outcome = "returned" => call'.scoring = loaderScoringConfig
          /\ call'.fn = "loadAll" => call'.readRuleset

\* C28: a load call that throws leaves the corresponding cache field unset,
\* so the next load call reads and validates the file again; when loadAll
\* throws because only the ruleset is invalid, the scoring config validated
\* in that call stays cached and later loadScoringConfig and loadAll calls
\* return it without reading the scoring file again
C28_ThrowingLoad == [][ThrowingLoadCachesNothing /\ NextLoadAfterThrow]_vars

\* loadAll has thrown on a ruleset that names an unknown function, after it
\* read and cached the scoring config
C28_Witness ==
    /\ pc = "loader"
    /\ RulesetLoadThrew(call)
    /\ call.fn = "loadAll"
    /\ call.readScoring
    /\ call.names = <<StrRef, "noSuchFunction">>
    /\ loaderScoringConfig = validateScoringConfig(call.scoringFile).data
    /\ loaderRulesetConfig = Undefined

\* an audit has returned on the Auditor whose loader may have been reloaded
AuditedAfterReload == pc = "reload" /\ result # Undefined

\* C29: an Auditor scores every audit with the scoring config and ruleset
\* that loadAll returned when it was constructed, whatever the loader has
\* been cleared of and has reloaded from changed files since
C29_ConfigFromConstruction ==
    /\ pc = "reload" =>
          (scoringConfig = validation.scoring /\ rulesetConfig = validation.ruleset)
    /\ AuditedAfterReload =>
          result.audit = AuditResult(result.spectralResults, validation.scoring,
                                     validation.ruleset, result.hasResolutionErrors)

\* the audit ran while the loader held another scoring config, reloaded from
\* a changed file, under which the same finding gives another result
C29_Witness ==
    /\ AuditedAfterReload
    /\ Truthy(result.loaderScoringConfig)
    /\ result.loaderScoringConfig # validation.scoring
    /\ Len(result.spectralResults) = 1
    /\ result.audit # AuditResult(result.spectralResults, result.loaderScoringConfig,
                                  validation.ruleset, result.hasResolutionErrors)

\* C30: in every audit result the counts by severity account for all
\* violations: errorCount + warningCount + infoCount = totalViolations
C30_CountsAddUp ==
    Returned =>
        result.summary.errorCount + result.summary.warningCount
            + result.summary.infoCount = result.summary.totalViolations

====
